---------------------------- MODULE Spec2Model ----------------------------
(***************************************************************************)
(* A state-machine model of the fgcm chi-squared engine (FgcmChisq) and    *)
(* of the gray and repeatability engines (FgcmGray, FgcmSigFgcm) that      *)
(* consume its results.  Spec, SpecCache, SpecGray and SpecSig run a       *)
(* worker on a partition as one step; SpecLock runs the workers of a pool  *)
(* statement by statement; SpecAgg runs the aggregation of                 *)
(* computeCCDAndExpGray over per-CCD sums of its own.                      *)
(*                                                                         *)
(* Arithmetic.  The code computes in float64.  The model computes in       *)
(* fixed point: magnitudes are integers (centi-magnitudes), a variance is  *)
(* an integer number of 1/VarUnit, and a float division a / b is the       *)
(* integer division a \div b.  The inverse variance 1 / err^2 of an        *)
(* observation is the integer weight VarUnit \div err^2.                   *)
(*                                                                         *)
(* In the gray and repeatability engines a float division is rounded       *)
(* toward zero (FDiv), an inverse variance is held in 1/WtUnit, and an     *)
(* error is held squared, in the unit of the variances.                    *)
(*                                                                         *)
(* Indices are 0-based as in the code; index lists (numpy index arrays)    *)
(* are sequences of such indices.                                          *)
(***************************************************************************)
EXTENDS Integers, Sequences, FiniteSets, TLC

(***************************************************************************)
(* Bounds of the model.                                                    *)
(***************************************************************************)
NObj == 4
MaxStarPerRun == 2
MaxCalls == 2
MaxCacheCalls == 3
MaxGrayOps == 2

(***************************************************************************)
(* Small helpers over sequences and sets.                                  *)
(***************************************************************************)
RECURSIVE SumSeq(_)
SumSeq(s) == IF s = <<>> THEN 0 ELSE Head(s) + SumSeq(Tail(s))

\* the elements of the set S of integers of lo..hi, ascending
SortedSeq(S, lo, hi) ==
    SelectSeq([k \in 1..(hi - lo + 1) |-> lo + k - 1], LAMBDA v : v \in S)

\* The array f itself.  TLC evaluates a function constructor at each
\* application; comparing the array evaluates its elements once.
Array(f) == IF f = f THEN f ELSE f

\* The value y, with x evaluated before it: TLC evaluates a definition where
\* it is first read, and this keeps the evaluation of x out of that of y.
After(x, y) == IF x = x THEN y ELSE y

SeqRange(s) == {s[i] : i \in 1..Len(s)}

\* s[gd] for an index array gd of 1-based positions
SelectAt(s, gd) == [k \in 1..Len(gd) |-> s[gd[k]]]

\* np.where(cond)[0] as 1-based positions of s, ascending
WherePos(s, Test(_)) == SelectSeq([k \in 1..Len(s) |-> k], Test)

(***************************************************************************)
(* The catalogue fixture: objects, exposures and the observation table.    *)
(***************************************************************************)
nBands == 2
nCampaignNights == 2
nWashIntervals == 1
nExp == 9
nCore == 2

Obj == 0..(NObj - 1)
Band == 0..(nBands - 1)
Exp == 0..(nExp - 1)

\* bands used in the objective
fitBandIndex == <<0>>

expBandIndex == [e \in Exp |-> IF e >= 7 THEN 1 ELSE 0]
expNightIndex == [e \in Exp |-> IF e \in {5, 6, 8} THEN 1 ELSE 0]
expWashIndex == [e \in Exp |-> 0]
\* exposure 4 is flagged (not photometric)
expFlag == [e \in Exp |-> IF e = 4 THEN 1 ELSE 0]
expDeltaUT == [e \in Exp |-> (e % 3) + 1]
expMJD == [e \in Exp |-> 10 + e]
washMJDs == <<10>>
expAirmass == [e \in Exp |-> 10 + (e % 4)]

\* Exposures in which object o is observed: every object is seen on the
\* exposures 0..4, 7 and 8, and on one of the two sparse night-1 exposures.
ObjExposures(o) == {0, 1, 2, 3, 4, 7, 8} \cup {IF o % 2 = 0 THEN 5 ELSE 6}

\* The observation table, sorted by object index (obsObjIDIndex ascending).
RECURSIVE ObsRowsFrom(_)
ObsRowsFrom(o) ==
    IF o >= NObj THEN <<>>
    ELSE [k \in 1..Cardinality(ObjExposures(o)) |->
             [obj |-> o, exp |-> SortedSeq(ObjExposures(o), 0, nExp - 1)[k]]]
         \o ObsRowsFrom(o + 1)

ObsRows == ObsRowsFrom(0)
nStarObs == Len(ObsRows)
ObsIdx == 0..(nStarObs - 1)

obsObjIDIndex == Array([i \in ObsIdx |-> ObsRows[i + 1].obj])
obsExpIndex == Array([i \in ObsIdx |-> ObsRows[i + 1].exp])
obsBandIndex == Array([i \in ObsIdx |-> expBandIndex[obsExpIndex[i]]])
\* two flagged observations, of object 0: on the exposures 1 and 8
obsFlag == [i \in ObsIdx |->
              IF obsObjIDIndex[i] = 0 /\ obsExpIndex[i] \in {1, 8}
              THEN 1 ELSE 0]
\* raw instrumental magnitudes (centi-mag)
obsMagADU == [i \in ObsIdx |->
                1500 + 50 * obsObjIDIndex[i] + 30 * obsBandIndex[i]
                + ((7 * i + 3 * obsExpIndex[i]) % 11) - 5]
\* inverse variance 1 / obsMagADUModelErr^2 of each observation
obsWeight == [i \in ObsIdx |-> 1 + ((i + obsExpIndex[i]) % 2)]


(***************************************************************************)
(* Object flag bits (fgcmUtilities.objFlagDict).                           *)
(***************************************************************************)
VARIABLE_BIT == 4
RESERVED == 16
ByteMask == 255

RECURSIVE BitAnd(_, _)
BitAnd(a, b) ==
    IF a = 0 \/ b = 0 THEN 0
    ELSE (a % 2) * (b % 2) + 2 * BitAnd(a \div 2, b \div 2)

\* a mask that clears the VARIABLE bit instead of the RESERVED bit
resMask_ClearsVariable == ByteMask - VARIABLE_BIT

\* 255 & ~objFlagDict['RESERVED']
resMask == ByteMask - RESERVED

(***************************************************************************)
(* The parameter container (FgcmParameters): the layout of the flat fit    *)
(* vector, the unit dictionary, reloadParArray and parsToExposures.        *)
(* The configuration modelled has no external PWV or tau data and does not *)
(* use retrieved PWV.                                                      *)
(***************************************************************************)
parO3Loc == 0
parAlphaLoc == parO3Loc + nCampaignNights
parPWVInterceptLoc == parAlphaLoc + nCampaignNights
parPWVPerSlopeLoc == parPWVInterceptLoc + nCampaignNights
parLnTauInterceptLoc == parPWVPerSlopeLoc + nCampaignNights
parLnTauSlopeLoc == parLnTauInterceptLoc + nCampaignNights
parQESysInterceptLoc == parLnTauSlopeLoc + nCampaignNights
parQESysSlopeLoc == parQESysInterceptLoc + nWashIntervals
nFitPars == parQESysSlopeLoc + nWashIntervals

ParIdx == 0..(nFitPars - 1)
Night == 0..(nCampaignNights - 1)
Wash == 0..(nWashIntervals - 1)

\* getUnitDict(fitterUnits): every unit is 1 in physical units
getUnitDict(fitterUnits) == IF fitterUnits THEN 2 ELSE 1

\* candidate parameter vectors handed to the engine by the fitter
fitParams0 == [p \in ParIdx |-> 0]
fitParams1 == [p \in ParIdx |-> 2 * ((3 * p + 1) % 4)]
FitParamsSet == {fitParams0, fitParams1}

\* a reload that leaves the constructor's parameters in the container
reloadParArray_NotLoaded(fitParams, fitterUnits) == [p \in ParIdx |-> 0]

\* reloadParArray: the fitter's vector converted to physical units
reloadParArray(fitParams, fitterUnits) ==
    [p \in ParIdx |-> fitParams[p] \div getUnitDict(fitterUnits)]

\* parsToExposures: per-night and per-wash parameters propagated to exposures
expO3(par, e) == par[parO3Loc + expNightIndex[e]]
expAlpha(par, e) == par[parAlphaLoc + expNightIndex[e]]
expPWV(par, e) ==
    par[parPWVInterceptLoc + expNightIndex[e]]
    + par[parPWVPerSlopeLoc + expNightIndex[e]] * expDeltaUT[e]
expLnTau(par, e) ==
    par[parLnTauInterceptLoc + expNightIndex[e]]
    + par[parLnTauSlopeLoc + expNightIndex[e]] * expDeltaUT[e]
expQESys(par, e) ==
    par[parQESysInterceptLoc + expWashIndex[e]]
    + par[parQESysSlopeLoc + expWashIndex[e]]
      * (expMJD[e] - washMJDs[expWashIndex[e] + 1])

(***************************************************************************)
(* The atmosphere look-up table (FgcmLUT).  LogI0 stands for               *)
(* 2.5 * log10(I0); the logarithmic derivatives are those of LogI0.        *)
(***************************************************************************)
LogI0(par, e) ==
    expAirmass[e] * (expO3(par, e) + 2 * expPWV(par, e)
                     + 3 * expLnTau(par, e) + expAlpha(par, e))
I10(par, e) == 5 + (expAirmass[e] % 3) + expPWV(par, e)
I10StdBand == <<5, 6>>
dLdPWV(e) == 20 * expAirmass[e]
dLdO3(e) == 10 * expAirmass[e]
dLdTau(e) == 30 * expAirmass[e]
dLdAlpha(e) == 10 * expAirmass[e]
\* 1.0 in the fixed-point unit of the derivatives
DUnit == 10


(***************************************************************************)
(* Values the code writes as literals.                                     *)
(***************************************************************************)
\* the 99.0 written into the mean-magnitude arrays, in centi-magnitudes
Mag99 == 9900
\* lcm(1..12): every weight sum of the fixture divides it
VarUnit == 27720
\* the 99.0 written into the mean-error array, squared, in 1/VarUnit
Err99 == 99 * 99 * VarUnit

\* a selection that takes every object whatever its flags
SelectGoodStars_IgnoringFlags(flags, includeReserve) ==
    SortedSeq(Obj, 0, NObj - 1)

(***************************************************************************)
(* Star selection and the presorted join (FgcmChisq.__call__).             *)
(***************************************************************************)
\* np.where over the object flags, with or without the reserved stars
SelectGoodStars(flags, includeReserve) ==
    IF includeReserve
    THEN SortedSeq({o \in Obj : BitAnd(flags[o], resMask) = 0}, 0, NObj - 1)
    ELSE SortedSeq({o \in Obj : flags[o] = 0}, 0, NObj - 1)

\* np.searchsorted(a, v): the number of elements of the sorted a below v
SearchSorted(a, v) == Cardinality({k \in 1..Len(a) : a[k] < v})

\* esutil.numpy_util.match(arr1, arr2, presorted=True): the positions sub2 of
\* the elements of arr2 found in arr1, ascending, and for each the 0-based
\* position sub1 of its value in arr1
MatchSub2(arr1, arr2) ==
    LET range1 == SeqRange(arr1)
    IN SortedSeq({i \in DOMAIN arr2 : arr2[i] \in range1}, 0, nStarObs - 1)

MatchSub1(arr1, arr2) ==
    LET sub2 == MatchSub2(arr1, arr2)
    IN Array([k \in 1..Len(sub2) |-> SearchSorted(arr1, arr2[sub2[k]])])

\* the cut applied to the joined observations
ObsPassesCut(i, allExposures) ==
    IF allExposures
    THEN obsFlag[i] = 0
    ELSE expFlag[obsExpIndex[i]] = 0 /\ obsFlag[i] = 0

\* The join of the good stars with the observation table, cropped to the
\* good observations: [goodObs, goodStarsSub]
PreMatch(goodStars, allExposures) ==
    LET sub1 == MatchSub1(goodStars, obsObjIDIndex)
        sub2 == MatchSub2(goodStars, obsObjIDIndex)
        gd == WherePos(sub2, LAMBDA k : ObsPassesCut(sub2[k], allExposures))
    IN [first |-> IF Len(sub1) = 0 THEN -1 ELSE sub1[1],
        goodObs |-> SelectAt(sub2, gd),
        goodStarsSub |-> SelectAt(sub1, gd)]

(***************************************************************************)
(* Partitioning of the good stars and of their observations.               *)
(***************************************************************************)
\* np.array_split(ary, n): the first Len(ary) % n chunks have one more element
ArraySplitStart(len, n, j) ==
    LET q == len \div n
        r == len % n
    IN IF j <= r THEN (j - 1) * (q + 1) ELSE r * (q + 1) + (j - 1 - r) * q

ArraySplit(ary, n) ==
    [j \in 1..n |->
        SubSeq(ary, ArraySplitStart(Len(ary), n, j) + 1,
                    ArraySplitStart(Len(ary), n, j + 1))]

\* np.split(ary, indices): cut before each of the given 0-based positions
SplitAt(ary, indices) ==
    [j \in 1..(Len(indices) + 1) |->
        SubSeq(ary,
               (IF j = 1 THEN 0 ELSE indices[j - 1]) + 1,
               IF j = Len(indices) + 1 THEN Len(ary) ELSE indices[j])]

\* list.sort(key=size of the observation list, reverse=True): stable
RECURSIVE SortBySizeDesc(_)
SortBySizeDesc(l) ==
    IF l = <<>> THEN <<>>
    ELSE LET m == CHOOSE k \in 1..Len(l) :
                    /\ \A j \in 1..Len(l) : Len(l[j].obs) <= Len(l[k].obs)
                    /\ \A j \in 1..(k - 1) : Len(l[j].obs) < Len(l[k].obs)
         IN <<l[m]>> \o SortBySizeDesc(SubSeq(l, 1, m - 1) \o SubSeq(l, m + 1, Len(l)))

nSectionsOf(goodStars, starPerRun) == Len(goodStars) \div starPerRun + 1

\* TRUE when some chunk of the split is empty, so that reading its first
\* element raises IndexError
SplitHasEmptyChunk(goodStars, starPerRun) ==
    nSectionsOf(goodStars, starPerRun) > Len(goodStars)

\* a list that splits the observations into chunks of equal size
MakeWorkerList_EvenSplit(goodStars, goodObs, goodStarsSub, starPerRun) ==
    LET nSections == nSectionsOf(goodStars, starPerRun)
        goodStarsList == ArraySplit(goodStars, nSections)
        goodObsList == ArraySplit(goodObs, nSections)
    IN SortBySizeDesc([j \in 1..nSections |->
                          [stars |-> goodStarsList[j], obs |-> goodObsList[j]]])

\* the list handed to pool.map: pairs of a star chunk and its observations
MakeWorkerList(goodStars, goodObs, goodStarsSub, starPerRun) ==
    LET nSections == nSectionsOf(goodStars, starPerRun)
        goodStarsList == ArraySplit(goodStars, nSections)
        splitValues == [i \in 1..(nSections - 1) |-> goodStarsList[i + 1][1]]
        matched == [k \in 1..Len(goodStarsSub) |-> goodStars[goodStarsSub[k] + 1]]
        splitIndices == [i \in 1..(nSections - 1) |->
                            SearchSorted(matched, splitValues[i])]
        goodObsList == SplitAt(goodObs, splitIndices)
    IN SortBySizeDesc([j \in 1..nSections |->
                          [stars |-> goodStarsList[j], obs |-> goodObsList[j]]])


(***************************************************************************)
(* State.                                                                  *)
(***************************************************************************)
VARIABLES
    objFlag,               \* fgcmStars: object flag bits
    nStarPerRun,           \* configuration: stars per partition
    parArray,              \* fgcmPars: the loaded parameters, physical units
    objMagStdMean,         \* fgcmStars: mean standardized magnitude [obj][band]
    objMagStdMeanNoChrom,  \* the same without chromatic correction
    objMagStdMeanErr,      \* its error, held squared in 1/VarUnit
    objSEDSlope,           \* fgcmStars: SED slope [obj][band]
    obsMagStd,             \* fgcmStars: standardized magnitude per observation
    magStdComputed,        \* fgcmStars.magStdComputed
    allMagStdComputed,     \* fgcmStars.allMagStdComputed
    fitChisqs,             \* FgcmChisq.fitChisqs
    nActualFitPars,        \* FgcmChisq.nActualFitPars
    matchCache,            \* FgcmChisq.matchesCached, goodObs, goodStarsSub
    self,                  \* the options of the current or last call
    pc,                    \* "idle" or, inside a call, "workers" (evaluate)
                           \* or "ccdgray" (computeCCDAndExpGray)
    workerList,            \* partitions not yet handed to a worker
    totalHandleDict,       \* FgcmChisq.totalHandleDict: slot key -> handle
    shm,                   \* the shared arrays allocated for accumulator slots
    result,                \* outcome of the last evaluate call
    nCalls,                \* number of evaluate calls started
    callInfo,              \* bookkeeping of the current call, for the properties
    prev,                  \* the outcome of the call before, if it returned
    fgcmGray,              \* FgcmGray: the gray tables (shared arrays)
    fgcmPars,              \* fgcmPars: compExpGray, compVarGray,
                           \* compNGoodStarPerExp, compSigFgcm
    grayResult,            \* outcome of the last gray or repeatability call
    nGrayOps,              \* number of gray and repeatability calls made
    evalReturned,          \* the allExposures options of the evaluate calls
                           \* that have returned
    grayInfo,              \* the arguments of the last gray or repeatability
                           \* call, the squared widths its fits returned,
                           \* what it logged and the plot files it wrote
    ccdSums,               \* computeCCDAndExpGray between its accumulation
                           \* and its aggregation: the per-CCD sums; <<>>
                           \* outside that point
    proc,                  \* per pool worker: its position in _worker, the
                           \* partition it runs and its local copies
    locks                  \* the holder of the lock of objMagStdMean and of
                           \* the lock of obsMagStd; NoHolder when free

\* the slot keys of the pool workers, and the value of a free lock
Workers == 1..nCore
NoHolder == 0
\* a worker between two partitions
IdleProc == [pc |-> "idle", stars |-> <<>>, obs |-> <<>>, obsMagStdGO |-> <<>>,
             objMagStdMeanGO |-> <<>>, objMagStdMeanErr2GO |-> <<>>]

starVars == <<objMagStdMean, objMagStdMeanNoChrom, objMagStdMeanErr,
              objSEDSlope, obsMagStd>>
vars == <<objFlag, nStarPerRun, parArray, objMagStdMean, objMagStdMeanNoChrom,
          objMagStdMeanErr, objSEDSlope, obsMagStd, magStdComputed,
          allMagStdComputed, fitChisqs, nActualFitPars, matchCache, self, pc,
          workerList, totalHandleDict, shm, result, nCalls, callInfo, prev,
          fgcmGray, fgcmPars, grayResult, nGrayOps, evalReturned, grayInfo,
          ccdSums, proc, locks>>
lockVars == <<proc, locks>>
grayVars == <<fgcmGray, fgcmPars, grayResult, nGrayOps, grayInfo, ccdSums>>
chisqVars == <<objFlag, nStarPerRun, parArray, objMagStdMean,
               objMagStdMeanNoChrom, objMagStdMeanErr, objSEDSlope, obsMagStd,
               magStdComputed, allMagStdComputed, fitChisqs, nActualFitPars,
               matchCache, self, pc, workerList, totalHandleDict, shm, result,
               nCalls, callInfo, prev, evalReturned, proc, locks>>

(***************************************************************************)
(* numpy's unbuffered in-place operations, one update per entry of the     *)
(* index list sel, in order: the array after the first k entries.  row,    *)
(* col, idx and val are arrays over the observations.                      *)
(***************************************************************************)
\* np.add.at(arr, (row[sel], col[sel]), val[sel])
RECURSIVE AddAt2(_, _, _, _, _, _)
AddAt2(arr, sel, row, col, val, k) ==
    IF k = 0 THEN arr
    ELSE LET i == sel[k]
         IN [AddAt2(arr, sel, row, col, val, k - 1)
                EXCEPT ![row[i]][col[i]] = @ + val[i]]

\* np.multiply.at(arr, (row[sel], col[sel]), val[sel]) for a variance val
RECURSIVE MultiplyAt2(_, _, _, _, _, _)
MultiplyAt2(arr, sel, row, col, val, k) ==
    IF k = 0 THEN arr
    ELSE LET i == sel[k]
         IN [MultiplyAt2(arr, sel, row, col, val, k - 1)
                EXCEPT ![row[i]][col[i]] = (@ * val[i]) \div VarUnit]

\* np.add.at(arr[loc : loc + n], idx[sel], val[sel])
RECURSIVE AddAt1(_, _, _, _, _, _)
AddAt1(arr, sel, loc, idx, val, k) ==
    IF k = 0 THEN arr
    ELSE LET i == sel[k]
         IN [AddAt1(arr, sel, loc, idx, val, k - 1)
                EXCEPT ![loc + idx[i]] = @ + val[i]]

\* the sum of f[sel[j]] over the positions j <= k of sel that pass Keep
RECURSIVE SumUpTo(_, _, _, _)
SumUpTo(f, sel, Keep(_), k) ==
    IF k = 0 THEN 0
    ELSE (IF Keep(sel[k]) THEN f[sel[k]] ELSE 0) + SumUpTo(f, sel, Keep, k - 1)

\* np.sum of f over the entries of sel that pass Keep
SumWhere(f, sel, Keep(_)) == SumUpTo(f, sel, Keep, Len(sel))

(***************************************************************************)
(* The worker (FgcmChisq._worker), as operators of the observation list    *)
(* goodObs of one partition.                                               *)
(***************************************************************************)
\* np.zeros_like(objMagStdMean)
ZeroCells == Array([o \in Obj |-> [b \in Band |-> 0]])

\* obsMagGO: instrument-corrected magnitude of observation i
ObsMagGO(par, i) ==
    obsMagADU[i] + LogI0(par, obsExpIndex[i]) + expQESys(par, obsExpIndex[i])

\* wtSum after np.add.at(wtSum, (obj, band), 1 / err^2)
WtSum(go) ==
    AddAt2(ZeroCells, go, obsObjIDIndex, obsBandIndex, obsWeight, Len(go))

\* a sum of the magnitudes that leaves the weights out
MeanTemp_Unweighted(go, mag) ==
    After(mag,
          AddAt2(ZeroCells, go, obsObjIDIndex, obsBandIndex, mag, Len(go)))

\* objMagStdMeanTemp after np.add.at(temp, (obj, band), mag / err^2)
MeanTemp(go, mag) ==
    After(mag,
          AddAt2(ZeroCells, go, obsObjIDIndex, obsBandIndex,
                 [i \in ObsIdx |-> mag[i] * obsWeight[i]], Len(go)))

\* objMagStdMean[gd] = temp[gd] / wtSum[gd]: only the cells with wtSum > 0
WriteMeans(old, wtSum, temp) ==
    Array([o \in Obj |-> [b \in Band |->
        IF wtSum[o][b] > 0 THEN temp[o][b] \div wtSum[o][b] ELSE old[o][b]]])

\* objMagStdMeanErr[gd] = sqrt(1 / wtSum[gd]), held squared
WriteMeanErrs(old, wtSum) ==
    Array([o \in Obj |-> [b \in Band |->
        IF wtSum[o][b] > 0 THEN VarUnit \div wtSum[o][b] ELSE old[o][b]]])

\* fgcmStars.computeObjectSEDSlopes(goodStars): slopes of the given stars
\* from their current mean magnitudes
computeObjectSEDSlopes(slopes, means, stars) ==
    Array([o \in Obj |-> [b \in Band |->
        IF o \in SeqRange(stars)
        THEN IF means[o][0] # Mag99 /\ means[o][1] # Mag99
             THEN (means[o][0] - means[o][1]) \div 100
             ELSE 0
        ELSE slopes[o][b]]])

\* deltaStdGO: the linearized chromatic correction, to first order in the
\* slope: 2.5 log10((1 + s I10) / (1 + s I10Std)) ~ s (I10 - I10Std)
DeltaStd(par, slopes, i) ==
    slopes[obsObjIDIndex[i]][obsBandIndex[i]]
        * (I10(par, obsExpIndex[i]) - I10StdBand[obsBandIndex[i] + 1])

\* a write that adds to the stored magnitude instead of replacing it
WriteObsMagStd_Accumulating(old, par, slopes, go) ==
    LET goSet == SeqRange(go)
    IN Array([i \in ObsIdx |->
                 IF i \in goSet
                 THEN old[i] + ObsMagGO(par, i) + DeltaStd(par, slopes, i)
                 ELSE old[i]])

\* obsMagStd[goodObs] = obsMagGO + deltaStdGO
WriteObsMagStd(old, par, slopes, go) ==
    LET goSet == SeqRange(go)
    IN Array([i \in ObsIdx |->
                 IF i \in goSet THEN ObsMagGO(par, i) + DeltaStd(par, slopes, i)
                 ELSE old[i]])

\* obsFitUseGO: the observations of the list taken in a fit band, in order
ObsFitUse(go) ==
    SelectSeq(go, LAMBDA i : obsBandIndex[i] \in SeqRange(fitBandIndex))

(***************************************************************************)
(* The derivative sums of the worker.  Every family follows one pattern:   *)
(* np.add.at of dL/err^2 into a (group, band) array, np.multiply.at of the *)
(* squared mean error of each observation into the same cell, np.add.at of *)
(* deltaMagWeighted * (dL - array[group, band]) into the parameter slice,  *)
(* a scaling by 2 / unit and a touch counter.  A group is a night or a     *)
(* wash interval.                                                          *)
(***************************************************************************)
obsNight == Array([i \in ObsIdx |-> expNightIndex[obsExpIndex[i]]])
obsWash == Array([i \in ObsIdx |-> expWashIndex[obsExpIndex[i]]])

\* np.zeros((nGroups, nBands))
ZeroArray(G) == Array([g \in G |-> [b \in Band |-> 0]])

\* the (group, band) array after the add.at and the multiply.at; errGO is
\* objMagStdMeanErr2GO
MagdLd(sel, v, grp, errGO, G) ==
    LET summed == AddAt2(ZeroArray(G), sel, grp, obsBandIndex,
                         [i \in ObsIdx |-> v[i] * obsWeight[i]], Len(sel))
    IN After(summed,
             MultiplyAt2(summed, sel, grp, obsBandIndex, errGO, Len(sel)))

\* partialArray[...] *= 2.0 / unit
ScaleByUnit(x, unit) == (2 * x) \div unit

\* np.unique(group index of the selection)
Unique(sel, grp) == {grp[i] : i \in SeqRange(sel)}

\* One family: np.add.at(partialArray[loc : loc + n], group,
\* dmw * (v - corr[group, band])), then the slots loc + scaled times
\* 2 / unit, then the touch counters nFitPars + loc + touched plus one.
Family(partialArray, sel, dmw, v, corr, grp, loc, scaled, touched, unit) ==
    LET added == AddAt1(partialArray, sel, loc, grp,
                        [i \in ObsIdx |->
                            dmw[i] * (v[i] - corr[grp[i]][obsBandIndex[i]])],
                        Len(sel))
    IN After(<<partialArray, corr>>,
             Array([p \in DOMAIN partialArray |->
                      IF (p - loc) \in scaled THEN ScaleByUnit(added[p], unit)
                      ELSE IF (p - nFitPars - loc) \in touched THEN added[p] + 1
                      ELSE added[p]]))

\* The partial array of one worker after the derivative block.  dmw is
\* deltaMagWeightedGOF, errGO is objMagStdMeanErr2GO.
Derivatives(partialArray, gof, dmw, errGO, par, unit) ==
    LET uNightIndex == Unique(gof, obsNight)
        uWashIndex == Unique(gof, obsWash)
        \* no exposure has external PWV or tau: noExtGOF is all of gof
        noExtGOF == gof
        uNightIndexNoExt == Unique(noExtGOF, obsNight)
        vO3 == [i \in ObsIdx |-> dLdO3(obsExpIndex[i])]
        vAlpha == [i \in ObsIdx |-> dLdAlpha(obsExpIndex[i])]
        vPWV == [i \in ObsIdx |-> dLdPWV(obsExpIndex[i])]
        vPWVPerSlope == [i \in ObsIdx |->
                            expDeltaUT[obsExpIndex[i]] * expPWV(par, obsExpIndex[i])
                            * dLdPWV(obsExpIndex[i])]
        vTau == [i \in ObsIdx |-> dLdTau(obsExpIndex[i])]
        vTauPerSlope == [i \in ObsIdx |->
                            expDeltaUT[obsExpIndex[i]] * dLdTau(obsExpIndex[i])]
        vWash == [i \in ObsIdx |-> DUnit]
        vWashSlope == [i \in ObsIdx |->
                          (expMJD[obsExpIndex[i]] - washMJDs[obsWash[i] + 1]) * DUnit]
        magdLdO3 == MagdLd(gof, vO3, obsNight, errGO, Night)
        magdLdAlpha == MagdLd(gof, vAlpha, obsNight, errGO, Night)
        \* magdLdPWVOffset and magdLdTauOffset are filled only with external
        \* data; the intercept terms below read them, as the code does
        magdLdPWVOffset == ZeroArray(Night)
        magdLdPWVPerSlope == MagdLd(noExtGOF, vPWVPerSlope, obsNight, errGO, Night)
        magdLdTauOffset == ZeroArray(Night)
        magdLdTauPerSlope == MagdLd(noExtGOF, vTauPerSlope, obsNight, errGO, Night)
        magdLdWashIntercept == MagdLd(gof, vWash, obsWash, errGO, Wash)
        magdLdWashSlope == MagdLd(gof, vWashSlope, obsWash, errGO, Wash)
        a1 == Family(partialArray, gof, dmw, vO3, magdLdO3, obsNight,
                     parO3Loc, uNightIndex, uNightIndex, unit)
        a2 == Family(a1, gof, dmw, vAlpha, magdLdAlpha, obsNight,
                     parAlphaLoc, uNightIndex, uNightIndex, unit)
        a3 == Family(a2, noExtGOF, dmw, vPWV, magdLdPWVOffset, obsNight,
                     parPWVInterceptLoc, uNightIndexNoExt, uNightIndexNoExt, unit)
        \* the slope is scaled on uNightIndex and its touch counter is
        \* incremented at the first slot of the slice only
        a4 == Family(a3, noExtGOF, dmw, vPWVPerSlope, magdLdPWVPerSlope, obsNight,
                     parPWVPerSlopeLoc, uNightIndex, {0}, unit)
        a5 == Family(a4, noExtGOF, dmw, vTau, magdLdTauOffset, obsNight,
                     parLnTauInterceptLoc, uNightIndexNoExt, uNightIndexNoExt, unit)
        a6 == Family(a5, noExtGOF, dmw, vTauPerSlope, magdLdTauPerSlope, obsNight,
                     parLnTauSlopeLoc, uNightIndexNoExt, uNightIndexNoExt, unit)
        a7 == Family(a6, gof, dmw, vWash, magdLdWashIntercept, obsWash,
                     parQESysInterceptLoc, uWashIndex, uWashIndex, unit)
    IN Family(a7, gof, dmw, vWashSlope, magdLdWashSlope, obsWash,
              parQESysSlopeLoc, uWashIndex, uWashIndex, unit)

\* self.nSums
nSumsOf(computeDerivatives) == IF computeDerivatives THEN 2 + 2 * nFitPars ELSE 2

\* deltaMagGO of observation i
DeltaMag(mstd, means, i) == mstd[i] - means[obsObjIDIndex[i]][obsBandIndex[i]]

\* partialChisq = np.sum(deltaMagGO[obsFitUseGO]**2 * obsWeightGO[obsFitUseGO])
PartialChisq(gof, mstd, means) ==
    SumWhere([i \in ObsIdx |->
                 DeltaMag(mstd, means, i) * DeltaMag(mstd, means, i)
                 * obsWeight[i]],
             gof, LAMBDA i : TRUE)

\* partialArray of one worker: derivatives, touch counters, chisq, nobs
PartialArray(go, mstd, means, errs, par, computeDerivatives, unit) ==
    LET gof == ObsFitUse(go)
        nSums == nSumsOf(computeDerivatives)
        dmw == [i \in ObsIdx |-> DeltaMag(mstd, means, i) * obsWeight[i]]
        errGO == [i \in ObsIdx |-> errs[obsObjIDIndex[i]][obsBandIndex[i]]]
        start == Array([k \in 0..(nSums - 1) |->
                           IF k = nSums - 2 THEN PartialChisq(gof, mstd, means)
                           ELSE IF k = nSums - 1 THEN Len(gof)
                           ELSE 0])
    IN After(<<mstd, means, errs>>,
             IF computeDerivatives
             THEN Derivatives(start, gof, dmw, errGO, par, unit)
             ELSE start)

(***************************************************************************)
(* What one worker run computes from the current state for the partition   *)
(* (stars, go): the arrays it leaves and its partial array.                *)
(***************************************************************************)
WorkerOut(stars, go) ==
    LET par == parArray
        magGO == [i \in ObsIdx |-> ObsMagGO(par, i)]
        wtSum == WtSum(go)
        \* computeSEDSlopes: first means from the uncorrected magnitudes,
        \* written under the lock, then the slopes of the stars of the chunk
        means1 == IF self.computeSEDSlopes
                  THEN WriteMeans(objMagStdMean, wtSum, MeanTemp(go, magGO))
                  ELSE objMagStdMean
        errs1 == IF self.computeSEDSlopes
                 THEN WriteMeanErrs(objMagStdMeanErr, wtSum) ELSE objMagStdMeanErr
        slopes1 == IF self.computeSEDSlopes
                   THEN computeObjectSEDSlopes(objSEDSlope, means1, stars)
                   ELSE objSEDSlope
        mstd1 == WriteObsMagStd(obsMagStd, par, slopes1, go)
        means2 == WriteMeans(means1, wtSum, MeanTemp(go, mstd1))
        noChrom2 == WriteMeans(objMagStdMeanNoChrom, wtSum, MeanTemp(go, magGO))
        errs2 == WriteMeanErrs(errs1, wtSum)
    IN IF self.allExposures
       THEN \* kick out after the standardized magnitudes
            [mean |-> means1, noChrom |-> objMagStdMeanNoChrom, err |-> errs1,
             slope |-> slopes1, mstd |-> mstd1, adds |-> FALSE]
       ELSE [mean |-> means2, noChrom |-> noChrom2, err |-> errs2,
             slope |-> slopes1, mstd |-> mstd1, adds |-> TRUE]

(***************************************************************************)
(* The star container and the configuration read by the gray and           *)
(* repeatability engines.                                                  *)
(***************************************************************************)
\* obsMagADUModelErr squared, in 1/VarUnit
obsMagErr2(i) == VarUnit \div obsWeight[i]

nCCD == 3
CCD == 0..(nCCD - 1)
\* obsCCD - ccdStartIndex: objects 0..2 fall on CCD 0, the others on CCD 1,
\* none on CCD 2
obsCCDIndex == Array([i \in ObsIdx |-> IF obsObjIDIndex[i] <= 2 THEN 0 ELSE 1])

\* bands required of a star, and the other bands
bandRequiredIndex == <<0>>
bandExtraIndex == <<1>>
minObsPerBand == 2
\* fgcmStars.objNGoodObs: the unflagged observations of an object in a band
\* taken on unflagged exposures
objNGoodObs ==
    Array([o \in Obj |-> [b \in Band |->
        Cardinality({i \in ObsIdx : /\ obsObjIDIndex[i] = o
                                    /\ obsBandIndex[i] = b
                                    /\ obsFlag[i] = 0
                                    /\ expFlag[obsExpIndex[i]] = 0})]])
\* the two bands whose mean-magnitude difference is the colour of a star
colorSplitIndices == <<0, 1>>
minStarPerCCD == 4
minStarPerExp == 2
\* maxCCDGrayErr squared, ccdGrayMaxStarErr, sigFgcmMaxErr squared (1/VarUnit)
maxCCDGrayErr2 == 5000
ccdGrayMaxStarErr == 25000
sigFgcmMaxErr2 == VarUnit
\* sigFgcmMaxEGray (centi-mag)
sigFgcmMaxEGray == 25
illegalValue == -9999
\* an inverse variance 1.0 in the unit of the gray weights
WtUnit == 2
\* a ratio 1.0 in the unit of the tiling counts
TilingUnit == 100

\* a / b in float64, rounded toward zero
FDiv(a, b) ==
    IF (a >= 0) = (b > 0) THEN a \div b ELSE -((-a) \div b)

\* np.sqrt of a non-negative number, rounded down
RECURSIVE SqrtBetween(_, _, _)
SqrtBetween(n, lo, hi) ==
    IF lo >= hi THEN lo
    ELSE LET mid == (lo + hi + 1) \div 2
         IN IF mid * mid <= n THEN SqrtBetween(n, mid, hi)
            ELSE SqrtBetween(n, lo, mid - 1)

\* np.sqrt of a negative number is nan, held as -1
NaN == -1
Sqrt(n) == IF n < 0 THEN NaN ELSE SqrtBetween(n, 0, IF n < 46340 THEN n ELSE 46340)

\* the k-th smallest (k from 0) element of the sequence s: s[st[k]] for
\* st = np.argsort(s)
Sorted(s, k) ==
    CHOOSE v \in SeqRange(s) :
        /\ Cardinality({j \in 1..Len(s) : s[j] < v}) <= k
        /\ Cardinality({j \in 1..Len(s) : s[j] <= v}) > k

\* np.median
Median(s) ==
    IF Len(s) % 2 = 1 THEN Sorted(s, Len(s) \div 2)
    ELSE FDiv(Sorted(s, Len(s) \div 2 - 1) + Sorted(s, Len(s) \div 2), 2)

(***************************************************************************)
(* Selections shared by the gray and repeatability engines.                *)
(***************************************************************************)
\* minObs = objNGoodObs[:, bandRequiredIndex].min(axis=1)
MinObs(o) ==
    CHOOSE n \in {objNGoodObs[o][b] : b \in SeqRange(bandRequiredIndex)} :
        \A b \in SeqRange(bandRequiredIndex) : n <= objNGoodObs[o][b]

\* goodStars of the gray engine: enough observations and no flag at all
GrayGoodStars(flags) ==
    SortedSeq({o \in Obj : MinObs(o) >= minObsPerBand /\ flags[o] = 0},
              0, NObj - 1)

\* goodStars of computeSigFgcm
SigGoodStars(flags, reserved) ==
    IF reserved
    THEN SortedSeq({o \in Obj : /\ MinObs(o) >= minObsPerBand
                                /\ BitAnd(flags[o], RESERVED) > 0},
                   0, NObj - 1)
    ELSE GrayGoodStars(flags)

\* the observations of the stars that are not flagged, on any exposure
GrayGoodObs(stars) ==
    SelectSeq(MatchSub2(stars, obsObjIDIndex), LAMBDA i : obsFlag[i] = 0)

\* the observations of the stars that are not flagged, on good exposures
SigGoodObs(stars) ==
    SelectSeq(MatchSub2(stars, obsObjIDIndex),
              LAMBDA i : expFlag[obsExpIndex[i]] = 0 /\ obsFlag[i] = 0)

\* reqBandUse followed by extraBandUse for each extra band: the observations
\* in a required band, and those in an extra band in which their star has
\* enough observations
GrayUse(go) ==
    SelectSeq(go, LAMBDA i : obsBandIndex[i] \in SeqRange(bandRequiredIndex))
    \o SelectSeq(go, LAMBDA i :
           /\ obsBandIndex[i] \in SeqRange(bandExtraIndex)
           /\ objNGoodObs[obsObjIDIndex[i]][obsBandIndex[i]] >= minObsPerBand)

\* EGray = <mstd> - mstd of observation i
EGray(means, mstd, i) == means[obsObjIDIndex[i]][obsBandIndex[i]] - mstd[i]

\* EGrayErr2 of observation i: obsMagErr**2 - objMagStdMeanErr**2, or the
\* observation error alone
EGrayErr2(errs, i, onlyObsErr) ==
    IF onlyObsErr THEN obsMagErr2(i)
    ELSE obsMagErr2(i) - errs[obsObjIDIndex[i]][obsBandIndex[i]]

\* gmiGO of observation i: the colour of its star
Gmi(means, i) ==
    means[obsObjIDIndex[i]][colorSplitIndices[1]]
        - means[obsObjIDIndex[i]][colorSplitIndices[2]]

\* the colour at the sorted position int(frac * st.size), frac in quarters
GmiCut(gmi, quarters) == Sorted(gmi, (quarters * Len(gmi)) \div 4)
GmiLast(gmi) == Sorted(gmi, Len(gmi) - 1)

ZeroExp == [e \in Exp |-> 0]
ZeroExpCCD == [e \in Exp |-> [c \in CCD |-> 0]]

(***************************************************************************)
(* FgcmGray.computeExpGrayForInitialSelection                              *)
(***************************************************************************)
ExpGrayForInitialSelection(flags, means, mstd) ==
    LET use == GrayUse(GrayGoodObs(GrayGoodStars(flags)))
        eg == [i \in ObsIdx |-> EGray(means, mstd, i)]
        total == AddAt1(ZeroExp, use, 0, obsExpIndex, eg, Len(use))
        total2 == AddAt1(ZeroExp, use, 0, obsExpIndex,
                         [i \in ObsIdx |-> eg[i] * eg[i]], Len(use))
        n == AddAt1(ZeroExp, use, 0, obsExpIndex, [i \in ObsIdx |-> 1], Len(use))
        mean == [e \in Exp |-> IF n[e] > 0 THEN FDiv(total[e], n[e]) ELSE total[e]]
    IN [expGrayForInitialSelection |-> mean,
        expGrayRMSForInitialSelection |->
            [e \in Exp |-> IF n[e] > 0
                           THEN Sqrt(FDiv(total2[e], n[e]) - mean[e] * mean[e])
                           ELSE total2[e]],
        expNGoodStarForInitialSelection |-> n]

(***************************************************************************)
(* FgcmGray.computeCCDAndExpGray                                           *)
(***************************************************************************)
\* 1. / EGrayErr2GO, and 1. / ccdGrayErr**2, in 1/WtUnit
InvVar(err2) == FDiv(VarUnit * WtUnit, err2)

\* the sums of the five np.add.at over the (exposure, CCD) cells
CCDSums(flags, means, errs, mstd, onlyObsErr) ==
    LET go == SelectSeq(GrayGoodObs(GrayGoodStars(flags)),
                        LAMBDA i : EGrayErr2(errs, i, onlyObsErr) < ccdGrayMaxStarErr)
        use == GrayUse(go)
        eg == [i \in ObsIdx |-> EGray(means, mstd, i)]
        wt == [i \in ObsIdx |-> InvVar(EGrayErr2(errs, i, onlyObsErr))]
    IN [ccdGrayWt |->
            AddAt2(ZeroExpCCD, use, obsExpIndex, obsCCDIndex, wt, Len(use)),
        ccdGray |->
            AddAt2(ZeroExpCCD, use, obsExpIndex, obsCCDIndex,
                   [i \in ObsIdx |-> eg[i] * wt[i]], Len(use)),
        ccdGrayRMS |->
            AddAt2(ZeroExpCCD, use, obsExpIndex, obsCCDIndex,
                   [i \in ObsIdx |-> eg[i] * eg[i] * wt[i]], Len(use)),
        ccdNGoodStars |->
            AddAt2(ZeroExpCCD, use, obsExpIndex, obsCCDIndex,
                   [i \in ObsIdx |-> 1], Len(use)),
        ccdNGoodObs |->
            AddAt2(ZeroExpCCD, use, obsExpIndex, obsCCDIndex,
                   [i \in ObsIdx |->
                       objNGoodObs[obsObjIDIndex[i]][obsBandIndex[i]]],
                   Len(use))]

\* need at least 3 or else computation can blow up
CCDGd(sums, e, c) ==
    /\ sums.ccdNGoodStars[e][c] > 2
    /\ sums.ccdGrayWt[e][c] > 0
    /\ sums.ccdGrayRMS[e][c] > 0

\* a mean that divides the weighted sum by the number of observations
CCDMean_ByCount(sums, e, c) ==
    IF CCDGd(sums, e, c) THEN FDiv(sums.ccdGray[e][c], sums.ccdNGoodStars[e][c])
    ELSE sums.ccdGray[e][c]

\* ccdGray[gd] /= ccdGrayWt[gd]
CCDMean(sums, e, c) ==
    IF CCDGd(sums, e, c) THEN FDiv(sums.ccdGray[e][c], sums.ccdGrayWt[e][c])
    ELSE sums.ccdGray[e][c]

\* tempRMS2
CCDTempRMS2(sums, e, c) ==
    IF CCDGd(sums, e, c)
    THEN FDiv(sums.ccdGrayRMS[e][c], sums.ccdGrayWt[e][c])
         - CCDMean(sums, e, c) * CCDMean(sums, e, c)
    ELSE 0

\* the totally bad CCDs, which get the illegal value
CCDBad(sums, e, c) ==
    \/ sums.ccdNGoodStars[e][c] <= 2
    \/ sums.ccdGrayWt[e][c] <= 0
    \/ CCDTempRMS2(sums, e, c) <= 0

\* the per-CCD tables from the sums
CCDGray(sums) ==
    [ccdGray |-> [e \in Exp |-> [c \in CCD |->
         IF CCDBad(sums, e, c) THEN illegalValue ELSE CCDMean(sums, e, c)]],
     ccdGrayRMS |-> [e \in Exp |-> [c \in CCD |->
         IF CCDBad(sums, e, c) THEN illegalValue
         ELSE Sqrt(CCDTempRMS2(sums, e, c))]],
     \* held squared
     ccdGrayErr |-> [e \in Exp |-> [c \in CCD |->
         IF CCDBad(sums, e, c) THEN illegalValue
         ELSE InvVar(sums.ccdGrayWt[e][c])]],
     ccdNGoodObs |-> sums.ccdNGoodObs,
     ccdNGoodStars |-> sums.ccdNGoodStars,
     \* held in 1/TilingUnit
     ccdNGoodTilings |-> [e \in Exp |-> [c \in CCD |->
         IF CCDGd(sums, e, c)
         THEN FDiv(TilingUnit * sums.ccdNGoodObs[e][c], sums.ccdNGoodStars[e][c])
         ELSE 0]]]

\* a selection by the number of stars alone
GoodCCD_ByStarsOnly(ccd, e, c) ==
    ccd.ccdNGoodStars[e][c] >= minStarPerCCD

\* goodCCD: the cells that enter the gray of their exposure
GoodCCD(ccd, e, c) ==
    /\ ccd.ccdNGoodStars[e][c] >= minStarPerCCD
    /\ ccd.ccdGrayErr[e][c] > 0
    /\ ccd.ccdGrayErr[e][c] < maxCCDGrayErr2

\* np.add.at(arr, goodCCD[0], val[goodCCD]) for one exposure: val is the
\* array of the values of its CCDs
SumGoodCCD(ccd, e, val) ==
    SumWhere(val, SortedSeq(CCD, 0, nCCD - 1), LAMBDA c : GoodCCD(ccd, e, c))

\* the per-exposure tables from the per-CCD tables
ExpGray(ccd) ==
    LET wt == [e \in Exp |-> [c \in CCD |-> InvVar(ccd.ccdGrayErr[e][c])]]
        expGrayWt == [e \in Exp |-> SumGoodCCD(ccd, e, wt[e])]
        total == [e \in Exp |->
                    SumGoodCCD(ccd, e, [c \in CCD |-> ccd.ccdGray[e][c] * wt[e][c]])]
        total2 == [e \in Exp |->
                    SumGoodCCD(ccd, e, [c \in CCD |->
                        ccd.ccdGray[e][c] * ccd.ccdGray[e][c] * wt[e][c]])]
        nCCDs == Array([e \in Exp |-> SumGoodCCD(ccd, e, [c \in CCD |-> 1])])
        tilings == [e \in Exp |-> SumGoodCCD(ccd, e, ccd.ccdNGoodTilings[e])]
        \* need at least 3 or else computation can blow up
        mean == [e \in Exp |-> FDiv(total[e], expGrayWt[e])]
    IN [expGray |-> [e \in Exp |->
            IF nCCDs[e] > 2 THEN mean[e] ELSE illegalValue],
        expGrayRMS |-> [e \in Exp |->
            IF nCCDs[e] > 2
            THEN Sqrt(FDiv(total2[e], expGrayWt[e]) - mean[e] * mean[e])
            ELSE illegalValue],
        \* held squared
        expGrayErr |-> [e \in Exp |->
            IF nCCDs[e] > 2 THEN InvVar(expGrayWt[e]) ELSE illegalValue],
        expNGoodStars |-> [e \in Exp |-> SumGoodCCD(ccd, e, ccd.ccdNGoodStars[e])],
        expNGoodCCDs |-> nCCDs,
        expNGoodTilings |-> [e \in Exp |->
            IF nCCDs[e] > 2 THEN FDiv(tilings[e], nCCDs[e]) ELSE illegalValue]]

\* a store of the squared RMS of every exposure, measured or not
CompGray_EveryVariance(pars, exp) ==
    [pars EXCEPT
        !.compExpGray = exp.expGray,
        !.compVarGray = [e \in Exp |-> exp.expGrayRMS[e] * exp.expGrayRMS[e]],
        !.compNGoodStarPerExp = exp.expNGoodStars]

\* fgcmPars after computeCCDAndExpGray: compVarGray is written only where
\* the exposure has more than 2 good CCDs
CompGray(pars, exp) ==
    [pars EXCEPT
        !.compExpGray = exp.expGray,
        !.compVarGray = [e \in Exp |->
            IF exp.expNGoodCCDs[e] > 2
            THEN exp.expGrayRMS[e] * exp.expGrayRMS[e]
            ELSE pars.compVarGray[e]],
        !.compNGoodStarPerExp = exp.expNGoodStars]

(***************************************************************************)
(* FgcmGray.computeExpGrayColorSplit                                       *)
(***************************************************************************)
ColorCut == 0..2

\* gmiCutLow[c], gmiCutHigh[c] of the blue, middle and red subsets
SplitCutLow(gmi, c) == GmiCut(gmi, IF c = 0 THEN 0 ELSE IF c = 1 THEN 1 ELSE 3)
SplitCutHigh(gmi, c) ==
    IF c = 0 THEN GmiCut(gmi, 1) ELSE IF c = 1 THEN GmiCut(gmi, 3) ELSE GmiLast(gmi)

\* use of each colour subset: the good observations of a star whose colour
\* is strictly between the two cuts of the subset
SplitUse(go, means) ==
    LET gmi == Array([k \in 1..Len(go) |-> Gmi(means, go[k])])
        gmiCutLow == Array([c \in ColorCut |-> SplitCutLow(gmi, c)])
        gmiCutHigh == Array([c \in ColorCut |-> SplitCutHigh(gmi, c)])
    IN Array([c \in ColorCut |->
                 SelectSeq(go, LAMBDA i : /\ Gmi(means, i) > gmiCutLow[c]
                                          /\ Gmi(means, i) < gmiCutHigh[c])])

ExpGrayColorSplit(flags, means, mstd) ==
    LET go == GrayGoodObs(GrayGoodStars(flags))
        eg == Array([i \in ObsIdx |-> EGray(means, mstd, i)])
        use == SplitUse(go, means)
        total == [c \in ColorCut |->
                    AddAt1(ZeroExp, use[c], 0, obsExpIndex, eg, Len(use[c]))]
        total2 == [c \in ColorCut |->
                    AddAt1(ZeroExp, use[c], 0, obsExpIndex,
                           [i \in ObsIdx |-> eg[i] * eg[i]], Len(use[c]))]
        n == Array([c \in ColorCut |->
                    AddAt1(ZeroExp, use[c], 0, obsExpIndex,
                           [i \in ObsIdx |-> 1], Len(use[c]))])
        mean == Array([e \in Exp |-> [c \in ColorCut |->
                    IF n[c][e] >= minStarPerExp
                    THEN FDiv(total[c][e], n[c][e]) ELSE illegalValue]])
    IN [expGrayColorSplit |-> mean,
        expGrayRMSColorSplit |-> [e \in Exp |-> [c \in ColorCut |->
            IF n[c][e] >= minStarPerExp
            THEN Sqrt(FDiv(total2[c][e], n[c][e]) - mean[e][c] * mean[e][c])
            ELSE illegalValue]],
        expGrayNGoodStarsColorSplit |-> [e \in Exp |-> [c \in ColorCut |-> n[c][e]]]]

(***************************************************************************)
(* FgcmSigFgcm.computeSigFgcm.  histoGauss fits a Gaussian to the          *)
(* residuals and returns its width, or fails; the model draws the squared  *)
(* width it returns from FitWidth2.                                        *)
(***************************************************************************)
\* a failed fit or a non-finite width
NonFinite == -1
FitWidth2 == {NonFinite, 0, 4 * VarUnit}
\* the fallback values 0.05 and 0.001, in milli-magnitudes
Sig05 == 50
Sig001 == 1
\* milli-magnitudes squared in 1/VarUnit of variance (10^6 / VarUnit)
MilliPerVar == 36

SigCut == 0..3

\* gmiCutLow[c], gmiCutHigh[c] of the subsets All, Blue25, Middle50, Red25
SigCutLow(gmi, c) == GmiCut(gmi, IF c <= 1 THEN 0 ELSE IF c = 2 THEN 1 ELSE 3)
SigCutHigh(gmi, c) ==
    IF c = 1 THEN GmiCut(gmi, 1) ELSE IF c = 2 THEN GmiCut(gmi, 3) ELSE GmiLast(gmi)

Abs(x) == IF x < 0 THEN -x ELSE x

\* sigUse of the band and colour subset
SigUse(go, means, errs, mstd, b, c) ==
    LET gmi == [k \in 1..Len(go) |-> Gmi(means, go[k])]
        gmiCutLow == SigCutLow(gmi, c)
        gmiCutHigh == SigCutHigh(gmi, c)
    IN SelectSeq(go, LAMBDA i :
           /\ obsBandIndex[i] = b
           /\ Abs(EGray(means, mstd, i)) < sigFgcmMaxEGray
           /\ EGrayErr2(errs, i, FALSE) > 0
           /\ EGrayErr2(errs, i, FALSE) < sigFgcmMaxErr2
           /\ EGray(means, mstd, i) # 0
           /\ \/ b \in SeqRange(bandRequiredIndex)
              \/ objNGoodObs[obsObjIDIndex[i]][b] >= minObsPerBand
           /\ Gmi(means, i) > gmiCutLow
           /\ Gmi(means, i) < gmiCutHigh)

\* the square root taken without the comparison with the median
SigFgcmOf_NoFallback(width2, medianErr2) ==
    IF width2 = NonFinite THEN Sig05
    ELSE Sqrt(MilliPerVar * (width2 - medianErr2))

\* sigFgcm[bandIndex] from the squared width of the fit and the median of
\* the residual variances of the subset
SigFgcmOf(width2, medianErr2) ==
    IF width2 = NonFinite THEN Sig05
    ELSE IF medianErr2 > width2 THEN Sig001
    ELSE Sqrt(MilliPerVar * (width2 - medianErr2))

\* sigUse of every band and colour subset
SigUseAll(go, means, errs, mstd) ==
    Array([p \in Band \X SigCut |-> SigUse(go, means, errs, mstd, p[1], p[2])])

\* the (band, colour subset) pairs with sigUse.size > 0: the others are
\* skipped by the continue
SigPairs(sigUse) == {p \in DOMAIN sigUse : sigUse[p] # <<>>}

\* np.median(EGrayErr2GO[sigUse]) of the subsets that are not skipped
MedianErr2(sigUse, errs) ==
    Array([p \in SigPairs(sigUse) |->
              Median([k \in 1..Len(sigUse[p]) |->
                         EGrayErr2(errs, sigUse[p][k], FALSE)])])

\* The band at whose savefig the name extraName is read before any
\* assignment, or nBands when there is none.  extraName is assigned in the
\* plotting part of a subset that is not skipped, and stays assigned for the
\* bands after it.
UnboundBand(pairs, doPlots) ==
    IF doPlots /\ \E p \in pairs : p[1] = 0 THEN nBands ELSE 0

\* the bands whose loop over the colour subsets runs
BandsLooped(pairs, doPlots) == {b \in Band : b <= UnboundBand(pairs, doPlots)}

\* sigFgcm[bandIndex] as logged for each subset that is not skipped; width2
\* gives the squared width of each fit
SigFgcmLogged(medianErr2, width2) ==
    [p \in DOMAIN width2 |-> SigFgcmOf(width2[p], medianErr2[p])]

\* a save that keeps the value of the last subset of the band
CompSigFgcm_LastSubset(old, logged, save) ==
    [b \in Band |->
        IF save /\ \E c \in SigCut : <<b, c>> \in DOMAIN logged
        THEN logged[<<b, CHOOSE c \in SigCut :
                            /\ <<b, c>> \in DOMAIN logged
                            /\ \A d \in SigCut : <<b, d>> \in DOMAIN logged => d <= c>>]
        ELSE old[b]]

\* fgcmPars.compSigFgcm after the loops: if (save and (c==0)), for the
\* subsets that are not skipped
CompSigFgcm(old, logged, save) ==
    [b \in Band |->
        IF save /\ <<b, 0>> \in DOMAIN logged THEN logged[<<b, 0>>] ELSE old[b]]

(***************************************************************************)
(* The state of the gray engine and of the computed fields of the          *)
(* parameter container after construction.                                 *)
(***************************************************************************)
NoGray ==
    [expGrayForInitialSelection |-> ZeroExp,
     expGrayRMSForInitialSelection |-> ZeroExp,
     expNGoodStarForInitialSelection |-> ZeroExp,
     ccdGray |-> ZeroExpCCD, ccdGrayRMS |-> ZeroExpCCD,
     ccdGrayErr |-> ZeroExpCCD, ccdNGoodObs |-> ZeroExpCCD,
     ccdNGoodStars |-> ZeroExpCCD, ccdNGoodTilings |-> ZeroExpCCD,
     expGray |-> ZeroExp, expGrayRMS |-> ZeroExp, expGrayErr |-> ZeroExp,
     expNGoodStars |-> ZeroExp, expNGoodCCDs |-> ZeroExp,
     expNGoodTilings |-> ZeroExp,
     expGrayColorSplit |-> [e \in Exp |-> [c \in ColorCut |-> 0]],
     expGrayRMSColorSplit |-> [e \in Exp |-> [c \in ColorCut |-> 0]],
     expGrayNGoodStarsColorSplit |-> [e \in Exp |-> [c \in ColorCut |-> 0]]]

NoComp ==
    [compExpGray |-> ZeroExp, compVarGray |-> ZeroExp,
     compNGoodStarPerExp |-> ZeroExp, compSigFgcm |-> [b \in Band |-> 0]]

\* the record rec with the fields of upd replaced
Merge(rec, upd) ==
    [f \in DOMAIN rec |-> IF f \in DOMAIN upd THEN upd[f] ELSE rec[f]]

(***************************************************************************)
(* Initial state: the engines just constructed on a loaded catalogue.      *)
(***************************************************************************)
\* the object flag tables the model starts from
FlagConfigs ==
    { [o \in Obj |-> 0],
      [o \in Obj |-> IF o = 0 THEN RESERVED ELSE 0],
      [o \in Obj |-> IF o <= 1 THEN VARIABLE_BIT ELSE 0],
      [o \in Obj |-> VARIABLE_BIT] }

\* no gray call yet: no argument, no logged value, no plot file
NoGrayInfo ==
    [args |-> <<>>, coeff2 |-> <<>>, sigFgcm |-> <<>>, bands |-> {}, plots |-> {}]

NoResult ==
    [op |-> "init", status |-> "none", msg |-> "", fitChisq |-> 0,
     dChisqdP |-> <<>>]

NoCallInfo ==
    [args |-> <<>>, goodStars |-> <<>>, goodObs |-> <<>>, partialSums |-> <<>>,
     handles |-> {}, dispatched |-> 0, fanIn |-> FALSE, before |-> <<>>,
     cacheCleared |-> FALSE, fromCache |-> FALSE, cachedFor |-> <<>>]

NoPrev ==
    [valid |-> FALSE, args |-> <<>>, goodStars |-> <<>>, fitChisq |-> 0,
     dChisqdP |-> <<>>, stars |-> <<>>, cacheCleared |-> FALSE]

\* the engines as their constructors leave them
Constructed ==
    /\ parArray = [p \in ParIdx |-> 0]
    /\ objMagStdMean = [o \in Obj |-> [b \in Band |-> Mag99]]
    /\ objMagStdMeanNoChrom = [o \in Obj |-> [b \in Band |-> Mag99]]
    /\ objMagStdMeanErr = [o \in Obj |-> [b \in Band |-> Err99]]
    /\ objSEDSlope = [o \in Obj |-> [b \in Band |-> 0]]
    /\ obsMagStd = [i \in ObsIdx |-> 0]
    /\ magStdComputed = FALSE
    /\ allMagStdComputed = FALSE
    /\ fitChisqs = <<>>
    /\ nActualFitPars = nFitPars
    /\ matchCache = [cached |-> FALSE, goodObs |-> <<>>, goodStarsSub |-> <<>>]
    /\ self = [fitterUnits |-> FALSE, computeDerivatives |-> FALSE,
               computeSEDSlopes |-> FALSE, useMatchCache |-> FALSE,
               debug |-> FALSE, allExposures |-> FALSE, includeReserve |-> FALSE]
    /\ pc = "idle"
    /\ workerList = <<>>
    /\ totalHandleDict = <<>>
    /\ shm = <<>>
    /\ result = NoResult
    /\ nCalls = 0
    /\ callInfo = NoCallInfo
    /\ prev = NoPrev
    /\ fgcmGray = NoGray
    /\ fgcmPars = NoComp
    /\ grayResult = [op |-> "init", status |-> "none"]
    /\ nGrayOps = 0
    /\ evalReturned = {}
    /\ grayInfo = NoGrayInfo
    /\ ccdSums = <<>>
    /\ proc = [w \in Workers |-> IdleProc]
    /\ locks = [objMagStdMean |-> NoHolder, obsMagStd |-> NoHolder]

Init ==
    /\ objFlag \in FlagConfigs
    /\ nStarPerRun \in 1..MaxStarPerRun
    /\ Constructed

(***************************************************************************)
(* FgcmChisq.__call__, first part: from the call to the dispatch of the    *)
(* partitions.  A call that raises before the dispatch is this one step.   *)
(***************************************************************************)
\* a call with every option at its default
PlainArgs(fitParams) ==
    [fitParams |-> fitParams, fitterUnits |-> FALSE,
     computeDerivatives |-> FALSE, computeSEDSlopes |-> FALSE,
     useMatchCache |-> FALSE, debug |-> FALSE, allExposures |-> FALSE,
     includeReserve |-> FALSE]

\* The calls of the model: the plain call, the gradient call and the
\* all-exposures call for each parameter vector, and for the first vector
\* each other option alone or with the gradient, and the two incompatible
\* combinations.
EvalArgs ==
    LET p0 == PlainArgs(fitParams0)
        d0 == [p0 EXCEPT !.computeDerivatives = TRUE]
    IN UNION {{PlainArgs(fp),
               [PlainArgs(fp) EXCEPT !.computeDerivatives = TRUE],
               [PlainArgs(fp) EXCEPT !.allExposures = TRUE]} : fp \in FitParamsSet}
       \cup {[p0 EXCEPT !.computeSEDSlopes = TRUE],
             [p0 EXCEPT !.useMatchCache = TRUE],
             [p0 EXCEPT !.includeReserve = TRUE],
             [d0 EXCEPT !.fitterUnits = TRUE],
             [d0 EXCEPT !.debug = TRUE],
             [d0 EXCEPT !.includeReserve = TRUE],
             [d0 EXCEPT !.allExposures = TRUE],
             [p0 EXCEPT !.useMatchCache = TRUE, !.includeReserve = TRUE],
             [p0 EXCEPT !.allExposures = TRUE, !.computeSEDSlopes = TRUE]}

\* an option check that forgets computeSEDSlopes
ArgsIncompatible_DerivativesOnly(a) ==
    a.allExposures /\ a.computeDerivatives

\* the incompatible option combination
ArgsIncompatible(a) ==
    a.allExposures /\ (a.computeDerivatives \/ a.computeSEDSlopes)

\* the keys of totalHandleDict: 0 in debug mode, else one per pool worker
SlotKeys(debug) == IF debug THEN {0} ELSE 1..nCore

\* the join used by the call: the cached one or a fresh one
JoinUsed(a, goodStars) ==
    IF a.useMatchCache /\ matchCache.cached
    THEN [first |-> 0, goodObs |-> matchCache.goodObs,
          goodStarsSub |-> matchCache.goodStarsSub]
    ELSE PreMatch(goodStars, a.allExposures)

\* goodStars[goodStarsSub] or goodStarsList[i][0] out of range
SplitRaises(goodStars, goodStarsSub, starPerRun) ==
    \/ SplitHasEmptyChunk(goodStars, starPerRun)
    \/ \E k \in 1..Len(goodStarsSub) : goodStarsSub[k] >= Len(goodStars)

\* How far the first part of the call gets: 0 raises on the options, 1 on
\* the empty selection, 2 inside the join, 3 while splitting, 4 dispatches
BeginStage(a) ==
    LET goodStars == SelectGoodStars(objFlag, a.includeReserve)
        join == JoinUsed(a, goodStars)
    IN IF ArgsIncompatible(a) THEN 0
       ELSE IF Len(goodStars) = 0 THEN 1
       ELSE IF join.first # 0 THEN 2
       ELSE IF ~a.debug /\ SplitRaises(goodStars, join.goodStarsSub, nStarPerRun)
       THEN 3
       ELSE 4

BeginError(a, stage) ==
    CASE stage = 0 ->
           [op |-> "evaluate", status |-> "ValueError",
            msg |-> "Cannot set allExposures and computeDerivatives or computeSEDSlopes",
            fitChisq |-> 0, dChisqdP |-> <<>>]
      [] stage = 1 ->
           [op |-> "evaluate", status |-> "ValueError",
            msg |-> "No good stars to fit!", fitChisq |-> 0, dChisqdP |-> <<>>]
      [] stage = 2 ->
           [op |-> "evaluate",
            status |-> IF JoinUsed(a, SelectGoodStars(objFlag, a.includeReserve)).first = -1
                       THEN "IndexError" ELSE "ValueError",
            msg |-> "Very strange that the goodStarsSub first element is non-zero.",
            fitChisq |-> 0, dChisqdP |-> <<>>]
      [] OTHER ->
           [op |-> "evaluate", status |-> "IndexError",
            msg |-> "index out of bounds", fitChisq |-> 0, dChisqdP |-> <<>>]

Running ==
    [op |-> "evaluate", status |-> "running", msg |-> "", fitChisq |-> 0,
     dChisqdP |-> <<>>]

EvalBegin(a, maxCalls) ==
    /\ pc = "idle"
    /\ nCalls < maxCalls
    /\ nCalls' = nCalls + 1
    /\ LET stage == BeginStage(a)
           goodStars == SelectGoodStars(objFlag, a.includeReserve)
           join == JoinUsed(a, goodStars)
           fresh == ~(a.useMatchCache /\ matchCache.cached)
           keys == SlotKeys(a.debug)
           handles == {<<nCalls + 1, k>> : k \in keys}
           nSums == nSumsOf(a.computeDerivatives)
           follows == result.op = "evaluate" /\ result.status = "return"
       IN /\ self' = [fitterUnits |-> a.fitterUnits,
                      computeDerivatives |-> a.computeDerivatives,
                      computeSEDSlopes |-> a.computeSEDSlopes,
                      useMatchCache |-> a.useMatchCache,
                      debug |-> IF stage >= 3 THEN a.debug ELSE self.debug,
                      allExposures |-> a.allExposures,
                      includeReserve |-> a.includeReserve]
          /\ parArray' = IF stage >= 1
                         THEN reloadParArray(a.fitParams, a.fitterUnits)
                         ELSE parArray
          /\ IF stage >= 1 /\ ~a.allExposures
             THEN /\ objMagStdMean' = [o \in Obj |-> [b \in Band |-> Mag99]]
                  /\ objMagStdMeanNoChrom' = [o \in Obj |-> [b \in Band |-> Mag99]]
                  /\ objMagStdMeanErr' = [o \in Obj |-> [b \in Band |-> Err99]]
             ELSE UNCHANGED <<objMagStdMean, objMagStdMeanNoChrom, objMagStdMeanErr>>
          /\ matchCache' = IF stage >= 3 /\ fresh /\ a.useMatchCache
                           THEN [cached |-> TRUE, goodObs |-> join.goodObs,
                                 goodStarsSub |-> join.goodStarsSub]
                           ELSE matchCache
          /\ totalHandleDict' = IF stage >= 3
                                THEN [k \in keys |-> <<nCalls + 1, k>>]
                                ELSE totalHandleDict
          /\ shm' = IF stage >= 3
                    THEN [h \in DOMAIN shm \cup handles |->
                             IF h \in handles THEN [k \in 0..(nSums - 1) |-> 0]
                             ELSE shm[h]]
                    ELSE shm
          /\ pc' = IF stage = 4 THEN "workers" ELSE "idle"
          /\ workerList' =
               IF stage = 4
               THEN IF a.debug
                    THEN <<[stars |-> goodStars, obs |-> join.goodObs]>>
                    ELSE MakeWorkerList(goodStars, join.goodObs,
                                        join.goodStarsSub, nStarPerRun)
               ELSE <<>>
          /\ result' = IF stage = 4 THEN Running ELSE BeginError(a, stage)
          /\ callInfo' = [args |-> a,
                          goodStars |-> IF stage >= 1 THEN goodStars ELSE <<>>,
                          goodObs |-> IF stage >= 3 THEN join.goodObs ELSE <<>>,
                          partialSums |-> <<>>,
                          handles |-> IF stage >= 3 THEN handles ELSE {},
                          dispatched |-> 0,
                          fanIn |-> FALSE,
                          before |-> <<objMagStdMean, objMagStdMeanNoChrom,
                                       objMagStdMeanErr>>,
                          cacheCleared |-> FALSE,
                          \* the call read the cached join; the selection
                          \* options of the call that filled the cache
                          fromCache |-> stage >= 2 /\ ~fresh,
                          cachedFor |->
                              IF stage >= 3 /\ fresh /\ a.useMatchCache
                              THEN [includeReserve |-> a.includeReserve,
                                    allExposures |-> a.allExposures]
                              ELSE callInfo.cachedFor]
          /\ prev' = IF follows
                     THEN [valid |-> TRUE, args |-> callInfo.args,
                           goodStars |-> callInfo.goodStars,
                           fitChisq |-> result.fitChisq,
                           dChisqdP |-> result.dChisqdP, stars |-> starVars,
                           cacheCleared |-> callInfo.cacheCleared]
                     ELSE NoPrev
    /\ UNCHANGED <<objFlag, nStarPerRun, objSEDSlope, obsMagStd, magStdComputed,
                   allMagStdComputed, fitChisqs, nActualFitPars, evalReturned>>
    \* the bookkeeping of the gray calls covers the calls made since the
    \* last evaluate call began
    /\ grayInfo' = NoGrayInfo
    /\ UNCHANGED <<fgcmGray, fgcmPars, grayResult, nGrayOps, ccdSums>>
    /\ UNCHANGED lockVars


(***************************************************************************)
(* One worker run: the pool worker (or, in debug mode, the caller) with    *)
(* slot key w takes the next partition of the list and runs _worker on it. *)
(***************************************************************************)
\* a store that keeps only the last partial array
AddToSlot_Overwrite(totalArr, partialArray) ==
    [k \in DOMAIN totalArr |-> partialArray[k]]

\* totalArr[:] = totalArr[:] + partialArray
AddToSlot(totalArr, partialArray) ==
    [k \in DOMAIN totalArr |-> totalArr[k] + partialArray[k]]

WorkerRun ==
    /\ pc = "workers"
    /\ workerList # <<>>
    /\ \E task \in {Head(workerList)} :
       \E out \in {WorkerOut(task.stars, task.obs)} :
       \E partialArray \in
            {IF out.adds
             THEN PartialArray(task.obs, out.mstd, out.mean, out.err, parArray,
                               self.computeDerivatives,
                               getUnitDict(self.fitterUnits))
             ELSE <<>>} :
          /\ objMagStdMean' = out.mean
          /\ objMagStdMeanNoChrom' = out.noChrom
          /\ objMagStdMeanErr' = out.err
          /\ objSEDSlope' = out.slope
          /\ obsMagStd' = out.mstd
          \* the task is run by any one of the workers, which adds to its slot
          /\ \E w \in DOMAIN totalHandleDict :
                shm' = IF out.adds
                       THEN [shm EXCEPT ![totalHandleDict[w]] =
                                            AddToSlot(@, partialArray)]
                       ELSE shm
    /\ workerList' = Tail(workerList)
    /\ callInfo' = [callInfo EXCEPT !.dispatched = @ + 1]
    /\ UNCHANGED <<objFlag, nStarPerRun, parArray, magStdComputed,
                   allMagStdComputed, fitChisqs, nActualFitPars, matchCache,
                   self, pc, totalHandleDict, result, nCalls, prev,
                   evalReturned>>
    /\ UNCHANGED grayVars
    /\ UNCHANGED lockVars

\* a fan-in that reads only the slot of the first key
SumSlots_FirstSlotOnly(dict, mem, nSums) ==
    LET first == CHOOSE key \in DOMAIN dict : \A other \in DOMAIN dict : key <= other
    IN [k \in 0..(nSums - 1) |-> mem[dict[first]][k]]

(***************************************************************************)
(* FgcmChisq.__call__, second part: the fan-in after all workers are done. *)
(***************************************************************************)
\* partialSums: the sum of the slots of totalHandleDict
SumSlots(dict, mem, nSums) ==
    [k \in 0..(nSums - 1) |->
        SumWhere([key \in DOMAIN dict |-> mem[dict[key]][k]],
                 SortedSeq(DOMAIN dict, 0, nCore), LAMBDA key : TRUE)]

\* a count that takes every parameter of the vector as touched
CountTouched_WholeVector(partialSums) == nFitPars

\* nonZero.size: the parameters whose summed touch counter is positive
CountTouched(partialSums) ==
    Cardinality({p \in ParIdx : partialSums[nFitPars + p] > 0})

\* degrees of freedom counted against the whole parameter vector
FitDOF_AllParameters(partialSums, nActual) ==
    partialSums[Len(partialSums)] - nFitPars

\* fitDOF = partialSums[-1] - float(self.nActualFitPars)
FitDOF(partialSums, nActual) ==
    partialSums[Len(partialSums)] - nActual

\* fitChisq = partialSums[-2] / fitDOF
FitChisq(partialSums, fitDOF) ==
    partialSums[Len(partialSums) - 1] \div fitDOF

\* dChisqdP = partialSums[0:nFitPars] / fitDOF
DChisqdP(partialSums, fitDOF) ==
    [p \in ParIdx |-> partialSums[p + 1] \div fitDOF]

\* for key in totalHandleDict: snmm.freeArray(...)
FreeSlots(mem, dict) ==
    [h \in DOMAIN mem \ {dict[k] : k \in DOMAIN dict} |-> mem[h]]

\* a return value of 0.0 whatever the history holds
LastChisq_Zero(hist) == 0

\* the value returned with allExposures: the last of the history, or 0.0
LastChisq(hist) == IF Len(hist) > 0 THEN hist[Len(hist)] ELSE 0

EvalEnd ==
    /\ pc = "workers"
    /\ workerList = <<>>
    \* pool.map returns when every worker is back
    /\ \A w \in Workers : proc[w].pc = "idle"
    /\ pc' = "idle"
    /\ LET nSums == nSumsOf(self.computeDerivatives)
           sums == SumSlots(totalHandleDict, shm, nSums)
           \* the sums as a sequence, so that [-1] and [-2] are its last two
           partialSums == [k \in 1..nSums |-> sums[k - 1]]
           nActual == IF self.computeDerivatives
                      THEN CountTouched(sums) ELSE nActualFitPars
           fitDOF == FitDOF(partialSums, nActual)
           fitChisq == FitChisq(partialSums, fitDOF)
       IN /\ callInfo' = [callInfo EXCEPT !.partialSums = sums, !.fanIn = TRUE]
          /\ IF ~self.allExposures
             THEN /\ nActualFitPars' = nActual
                  /\ IF fitDOF <= 0
                     THEN /\ result' =
                               [op |-> "evaluate", status |-> "ValueError",
                                msg |-> "Number of parameters fitted is more than number of constraints!",
                                fitChisq |-> 0, dChisqdP |-> <<>>]
                          /\ UNCHANGED <<fitChisqs, shm, magStdComputed,
                                         allMagStdComputed, evalReturned>>
                     ELSE /\ result' =
                               [op |-> "evaluate", status |-> "return",
                                msg |-> "", fitChisq |-> fitChisq,
                                dChisqdP |-> IF self.computeDerivatives
                                             THEN DChisqdP(partialSums, fitDOF)
                                             ELSE <<>>]
                          /\ fitChisqs' = Append(fitChisqs, fitChisq)
                          /\ shm' = FreeSlots(shm, totalHandleDict)
                          /\ magStdComputed' = TRUE
                          /\ evalReturned' = evalReturned \cup {FALSE}
                          /\ UNCHANGED allMagStdComputed
             ELSE /\ result' = [op |-> "evaluate", status |-> "return",
                                msg |-> "", fitChisq |-> LastChisq(fitChisqs),
                                dChisqdP |-> <<>>]
                  /\ shm' = FreeSlots(shm, totalHandleDict)
                  /\ magStdComputed' = TRUE
                  /\ allMagStdComputed' = TRUE
                  /\ evalReturned' = evalReturned \cup {TRUE}
                  /\ UNCHANGED <<fitChisqs, nActualFitPars>>
    /\ UNCHANGED <<objFlag, nStarPerRun, parArray, objMagStdMean,
                   objMagStdMeanNoChrom, objMagStdMeanErr, objSEDSlope,
                   obsMagStd, matchCache, self, workerList, totalHandleDict,
                   nCalls, prev>>
    /\ UNCHANGED grayVars
    /\ UNCHANGED lockVars

(***************************************************************************)
(* FgcmChisq.clearMatchCache (a no-op when nothing is cached)              *)
(***************************************************************************)
\* a clear that leaves the cached join in place
clearMatchCache_KeepsJoin ==
    /\ pc = "idle"
    /\ matchCache.cached
    /\ callInfo' = [callInfo EXCEPT !.cacheCleared = TRUE, !.cachedFor = <<>>]
    /\ UNCHANGED <<objFlag, nStarPerRun, parArray, starVars, magStdComputed,
                   allMagStdComputed, fitChisqs, nActualFitPars, matchCache,
                   self, pc, workerList, totalHandleDict, shm, result, nCalls,
                   prev, evalReturned>>
    /\ UNCHANGED grayVars
    /\ UNCHANGED lockVars

\* a clear that also turns the "computed" flags off
clearMatchCache_ResetsFlags ==
    /\ pc = "idle"
    /\ matchCache.cached
    /\ matchCache' = [cached |-> FALSE, goodObs |-> <<>>, goodStarsSub |-> <<>>]
    /\ callInfo' = [callInfo EXCEPT !.cacheCleared = TRUE, !.cachedFor = <<>>]
    /\ magStdComputed' = FALSE
    /\ allMagStdComputed' = FALSE
    /\ UNCHANGED <<objFlag, nStarPerRun, parArray, objMagStdMean,
                   objMagStdMeanNoChrom, objMagStdMeanErr, objSEDSlope,
                   obsMagStd, fitChisqs, nActualFitPars, self, pc, workerList,
                   totalHandleDict, shm, result, nCalls, prev, evalReturned>>
    /\ UNCHANGED grayVars
    /\ UNCHANGED lockVars

clearMatchCache ==
    /\ pc = "idle"
    /\ matchCache.cached
    /\ matchCache' = [cached |-> FALSE, goodObs |-> <<>>, goodStarsSub |-> <<>>]
    /\ callInfo' = [callInfo EXCEPT !.cacheCleared = TRUE, !.cachedFor = <<>>]
    /\ UNCHANGED <<objFlag, nStarPerRun, parArray, objMagStdMean,
                   objMagStdMeanNoChrom, objMagStdMeanErr, objSEDSlope,
                   obsMagStd, magStdComputed, allMagStdComputed, fitChisqs,
                   nActualFitPars, self, pc, workerList, totalHandleDict, shm,
                   result, nCalls, prev, evalReturned>>
    /\ UNCHANGED grayVars
    /\ UNCHANGED lockVars

(***************************************************************************)
(* The operations of the gray and repeatability engines.  The driver calls *)
(* them between evaluate calls.  Of a plot only its file name is kept.     *)
(***************************************************************************)
\* the guard of computeCCDAndExpGray reading the other flag
CCDAndExpGrayRaises_OnMagStd == ~magStdComputed

\* if (not self.fgcmStars.magStdComputed): raise RuntimeError
InitialSelectionRaises == ~magStdComputed
\* if (not self.fgcmStars.allMagStdComputed): raise ValueError
CCDAndExpGrayRaises == ~allMagStdComputed
\* if (not self.fgcmStars.magStdComputed): raise RuntimeError
ColorSplitRaises == ~magStdComputed
\* if (not self.fgcmStars.magStdComputed): raise ValueError
SigFgcmRaises == ~magStdComputed

\* the exposure-gray operations are called with doPlots off: their plots
\* read the tables and write none
NoPlots == [doPlots |-> FALSE]

GrayCall(op, status, args) ==
    /\ pc = "idle"
    /\ nGrayOps < MaxGrayOps
    /\ nGrayOps' = nGrayOps + 1
    /\ grayResult' = [op |-> op, status |-> status]
    /\ grayInfo' = [NoGrayInfo EXCEPT !.args = args]
    /\ UNCHANGED ccdSums
    /\ UNCHANGED chisqVars

computeExpGrayForInitialSelection ==
    IF InitialSelectionRaises
    THEN /\ GrayCall("computeExpGrayForInitialSelection", "RuntimeError", NoPlots)
         /\ UNCHANGED <<fgcmGray, fgcmPars>>
    ELSE /\ GrayCall("computeExpGrayForInitialSelection", "return", NoPlots)
         /\ fgcmGray' = Merge(fgcmGray,
                              ExpGrayForInitialSelection(objFlag, objMagStdMean,
                                                         obsMagStd))
         /\ UNCHANGED fgcmPars

computeCCDAndExpGray(onlyObsErr) ==
    IF CCDAndExpGrayRaises
    THEN /\ GrayCall("computeCCDAndExpGray", "ValueError",
                     [onlyObsErr |-> onlyObsErr])
         /\ UNCHANGED <<fgcmGray, fgcmPars>>
    ELSE /\ GrayCall("computeCCDAndExpGray", "return",
                     [onlyObsErr |-> onlyObsErr])
         /\ \E sums \in {CCDSums(objFlag, objMagStdMean, objMagStdMeanErr,
                                  obsMagStd, onlyObsErr)} :
               \E ccd \in {CCDGray(sums)} : \E exp \in {ExpGray(ccd)} :
                  /\ fgcmGray' = Merge(Merge(fgcmGray, ccd), exp)
                  /\ fgcmPars' = CompGray(fgcmPars, exp)

\* with no good observation, gmiGO[st[0]] raises before any table is written
computeExpGrayColorSplit ==
    /\ pc = "idle"
    /\ nGrayOps < MaxGrayOps
    /\ IF ColorSplitRaises
       THEN /\ GrayCall("computeExpGrayColorSplit", "RuntimeError", NoPlots)
            /\ UNCHANGED <<fgcmGray, fgcmPars>>
       ELSE IF GrayGoodObs(GrayGoodStars(objFlag)) = <<>>
       THEN /\ GrayCall("computeExpGrayColorSplit", "IndexError", NoPlots)
            /\ UNCHANGED <<fgcmGray, fgcmPars>>
       ELSE /\ GrayCall("computeExpGrayColorSplit", "return", NoPlots)
            /\ fgcmGray' = Merge(fgcmGray,
                                 ExpGrayColorSplit(objFlag, objMagStdMean, obsMagStd))
            /\ UNCHANGED fgcmPars

\* The call that passes its guard and finds good observations: the loops
\* over the bands and the colour subsets, with the squared width of each
\* fit drawn from widths.  The figure of a band is saved after its
\* subsets, under a name that holds extraName: the call raises
\* UnboundLocalError there when no subset has assigned it.
SigFgcmLoops(go, doPlots, save, args, widths) ==
    /\ \E sigUse \in {SigUseAll(go, objMagStdMean, objMagStdMeanErr, obsMagStd)} :
       \E pairs \in {SigPairs(sigUse)} :
       \E medianErr2 \in {MedianErr2(sigUse, objMagStdMeanErr)} :
       \E looped \in {BandsLooped(pairs, doPlots)} :
       \E width2 \in [{p \in pairs : p[1] \in looped} -> widths] :
       \E logged \in {SigFgcmLogged(medianErr2, width2)} :
          /\ nGrayOps' = nGrayOps + 1
          /\ grayResult' =
                [op |-> "computeSigFgcm",
                 status |-> IF UnboundBand(pairs, doPlots) < nBands
                            THEN "UnboundLocalError" ELSE "return"]
          /\ grayInfo' =
                [args |-> args, coeff2 |-> width2, sigFgcm |-> logged,
                 bands |-> looped,
                 plots |-> {b \in Band : b < UnboundBand(pairs, doPlots)}]
          /\ fgcmPars' = [fgcmPars EXCEPT !.compSigFgcm = CompSigFgcm(@, logged, save)]
          /\ UNCHANGED <<fgcmGray, ccdSums>>
          /\ UNCHANGED chisqVars

\* with no good observation, gmiGO[st[0]] raises before any value is saved;
\* widths are the squared widths the fits of the call can return
computeSigFgcm(reserved, doPlots, save, widths) ==
    /\ pc = "idle"
    /\ nGrayOps < MaxGrayOps
    /\ LET args == [reserved |-> reserved, doPlots |-> doPlots, save |-> save]
       IN IF SigFgcmRaises
          THEN /\ GrayCall("computeSigFgcm", "ValueError", args)
               /\ UNCHANGED <<fgcmGray, fgcmPars>>
          ELSE LET go == SigGoodObs(SigGoodStars(objFlag, reserved))
               IN IF go = <<>>
                  THEN /\ GrayCall("computeSigFgcm", "IndexError", args)
                       /\ UNCHANGED <<fgcmGray, fgcmPars>>
                  ELSE SigFgcmLoops(go, doPlots, save, args, widths)

(***************************************************************************)
(* Specifications.                                                         *)
(***************************************************************************)
Next ==
    \/ \E a \in EvalArgs : EvalBegin(a, MaxCalls)
    \/ WorkerRun
    \/ EvalEnd
    \/ clearMatchCache

Spec == Init /\ [][Next]_vars

\* The calls of the specification of the gray operations.
GrayEvalArgs ==
    {PlainArgs(fitParams0), PlainArgs(fitParams1),
     [PlainArgs(fitParams0) EXCEPT !.allExposures = TRUE]}

InitGray == Init /\ nStarPerRun = MaxStarPerRun

NextGray ==
    \/ \E a \in GrayEvalArgs : EvalBegin(a, MaxCalls)
    \/ WorkerRun
    \/ EvalEnd
    \/ computeExpGrayForInitialSelection
    \/ \E onlyObsErr \in BOOLEAN : computeCCDAndExpGray(onlyObsErr)
    \/ computeExpGrayColorSplit
    \* the fits of one computeSigFgcm call all return the same width
    \/ \E reserved \in BOOLEAN, doPlots \in BOOLEAN, save \in BOOLEAN :
          \E w \in FitWidth2 : computeSigFgcm(reserved, doPlots, save, {w})

SpecGray == InitGray /\ [][NextGray]_vars

\* The specification of the repeatability engine: evaluate calls and
\* computeSigFgcm calls, each fit of a call returning any of the widths.
NextSig ==
    \/ \E a \in GrayEvalArgs : EvalBegin(a, MaxCalls)
    \/ WorkerRun
    \/ EvalEnd
    \/ \E reserved \in BOOLEAN, doPlots \in BOOLEAN, save \in BOOLEAN :
          computeSigFgcm(reserved, doPlots, save, FitWidth2)

SpecSig == InitGray /\ [][NextSig]_vars

(***************************************************************************)
(* The aggregation of computeCCDAndExpGray on its own.  The call stands    *)
(* between the accumulation of the per-CCD sums (fgcmGray.py 444-486) and  *)
(* the aggregation (489-575); the sums are those of the stars of a larger  *)
(* catalogue, drawn cell by cell for the CCDs of two exposures.            *)
(***************************************************************************)
\* a contributing star observation: its gray residual (centi-mag), its
\* weight 1/EGrayErr2 and the good observations of its star in the band
Star(eg, wt) == [eg |-> eg, wt |-> wt, ngood |-> 3]

\* the stars of a cell: none; three; four of residual zero; four of low
\* weight; four of high weight, twice
CellStars ==
    { <<>>,
      <<Star(-20, 4), Star(0, 4), Star(10, 4)>>,
      <<Star(0, 4), Star(0, 4), Star(0, 4), Star(0, 4)>>,
      <<Star(-20, 2), Star(0, 2), Star(10, 2), Star(30, 2)>>,
      <<Star(-20, 4), Star(0, 4), Star(10, 4), Star(30, 4)>>,
      <<Star(-10, 4), Star(20, 6), Star(30, 4), Star(40, 4)>> }

\* the exposures whose cells are drawn; the others have no star
AggExp == {0, 1}

\* the sums the five np.add.at leave for the stars of the cells
SumsOfCells(cells) ==
    LET stars == [e \in Exp |-> [c \in CCD |->
                     IF e \in AggExp THEN cells[e][c] ELSE <<>>]]
        Sum(e, c, Val(_)) ==
            SumSeq([k \in 1..Len(stars[e][c]) |-> Val(stars[e][c][k])])
    IN [ccdGrayWt |-> [e \in Exp |-> [c \in CCD |->
            Sum(e, c, LAMBDA st : st.wt)]],
        ccdGray |-> [e \in Exp |-> [c \in CCD |->
            Sum(e, c, LAMBDA st : st.eg * st.wt)]],
        ccdGrayRMS |-> [e \in Exp |-> [c \in CCD |->
            Sum(e, c, LAMBDA st : st.eg * st.eg * st.wt)]],
        ccdNGoodStars |-> [e \in Exp |-> [c \in CCD |->
            Sum(e, c, LAMBDA st : 1)]],
        ccdNGoodObs |-> [e \in Exp |-> [c \in CCD |->
            Sum(e, c, LAMBDA st : st.ngood)]]]

\* the engines at the aggregation of a call, after an evaluate call with
\* allExposures
AggStart ==
    /\ objFlag = [o \in Obj |-> 0]
    /\ nStarPerRun = MaxStarPerRun
    /\ parArray = [p \in ParIdx |-> 0]
    /\ objMagStdMean = [o \in Obj |-> [b \in Band |-> Mag99]]
    /\ objMagStdMeanNoChrom = [o \in Obj |-> [b \in Band |-> Mag99]]
    /\ objMagStdMeanErr = [o \in Obj |-> [b \in Band |-> Err99]]
    /\ objSEDSlope = [o \in Obj |-> [b \in Band |-> 0]]
    /\ obsMagStd = [i \in ObsIdx |-> 0]
    \* the call has passed its guard
    /\ magStdComputed = TRUE
    /\ allMagStdComputed = TRUE
    /\ fitChisqs = <<>>
    /\ nActualFitPars = nFitPars
    /\ matchCache = [cached |-> FALSE, goodObs |-> <<>>, goodStarsSub |-> <<>>]
    /\ self = [fitterUnits |-> FALSE, computeDerivatives |-> FALSE,
               computeSEDSlopes |-> FALSE, useMatchCache |-> FALSE,
               debug |-> FALSE, allExposures |-> TRUE, includeReserve |-> FALSE]
    /\ pc = "ccdgray"
    /\ workerList = <<>>
    /\ totalHandleDict = <<>>
    /\ shm = <<>>
    /\ result = NoResult
    /\ nCalls = 0
    /\ callInfo = NoCallInfo
    /\ prev = NoPrev
    /\ fgcmGray = NoGray
    /\ fgcmPars = NoComp
    /\ grayResult = [op |-> "init", status |-> "none"]
    /\ nGrayOps = 0
    /\ evalReturned = {TRUE}
    /\ grayInfo = NoGrayInfo
    /\ proc = [w \in Workers |-> IdleProc]
    /\ locks = [objMagStdMean |-> NoHolder, obsMagStd |-> NoHolder]

InitAgg ==
    /\ AggStart
    /\ \E cells \in [AggExp -> [CCD -> CellStars]] : ccdSums = SumsOfCells(cells)

\* fgcmGray.py 489-575: the per-CCD values, the per-exposure values and
\* the fields of the parameter container, from the sums
AggregateCCDGray ==
    /\ pc = "ccdgray"
    /\ \E ccd \in {CCDGray(ccdSums)} : \E exp \in {ExpGray(ccd)} :
          /\ fgcmGray' = Merge(Merge(fgcmGray, ccd), exp)
          /\ fgcmPars' = CompGray(fgcmPars, exp)
    /\ pc' = "idle"
    /\ ccdSums' = <<>>
    /\ nGrayOps' = nGrayOps + 1
    /\ grayResult' = [op |-> "computeCCDAndExpGray", status |-> "return"]
    /\ grayInfo' = [NoGrayInfo EXCEPT !.args = [onlyObsErr |-> FALSE]]
    /\ UNCHANGED <<objFlag, nStarPerRun, parArray, objMagStdMean,
                   objMagStdMeanNoChrom, objMagStdMeanErr, objSEDSlope,
                   obsMagStd, magStdComputed, allMagStdComputed, fitChisqs,
                   nActualFitPars, matchCache, self, workerList,
                   totalHandleDict, shm, result, nCalls, callInfo, prev,
                   evalReturned>>
    /\ UNCHANGED lockVars

NextAgg == AggregateCCDGray

SpecAgg == InitAgg /\ [][NextAgg]_vars

(***************************************************************************)
(* The pool workers of one evaluate call, statement by statement: each     *)
(* worker takes partitions off the list and runs _worker on them, and the  *)
(* workers interleave between any two of the steps below.                  *)
(***************************************************************************)
MaxLockCalls == 2

\* the calls of this specification: pool calls of each path through _worker
LockEvalArgs ==
    LET p0 == PlainArgs(fitParams0)
    IN {p0,
        [p0 EXCEPT !.computeDerivatives = TRUE],
        [p0 EXCEPT !.computeSEDSlopes = TRUE],
        [p0 EXCEPT !.allExposures = TRUE]}

\* an array of observations, cut to the observations of the list
OnObs(arr, go) ==
    LET goSet == SeqRange(go)
    IN Array([i \in ObsIdx |-> IF i \in goSet THEN arr[i] ELSE 0])

\* an array of (object, band) cells, cut to the cells of the list
OnCells(arr, go) ==
    LET gd == {<<obsObjIDIndex[i], obsBandIndex[i]>> : i \in SeqRange(go)}
    IN Array([o \in Obj |-> [b \in Band |->
                 IF <<o, b>> \in gd THEN arr[o][b] ELSE 0]])

\* what no step of a worker touches
WorkerFrame ==
    /\ UNCHANGED <<objFlag, nStarPerRun, parArray, magStdComputed,
                   allMagStdComputed, fitChisqs, nActualFitPars, matchCache,
                   self, pc, totalHandleDict, result, nCalls, prev,
                   evalReturned>>
    /\ UNCHANGED grayVars

\* worker w moves from one statement to another
Goto(w, from, to) ==
    /\ pc = "workers"
    /\ proc[w].pc = from
    /\ proc' = [proc EXCEPT ![w].pc = to]

\* a release that leaves the lock with its holder
Release_KeepsLock(w, lock) ==
    UNCHANGED locks

\* lock.acquire(): blocks until the lock is free
Acquire(w, lock) ==
    /\ locks[lock] = NoHolder
    /\ locks' = [locks EXCEPT ![lock] = w]

\* lock.release()
Release(w, lock) ==
    /\ locks[lock] = w
    /\ locks' = [locks EXCEPT ![lock] = NoHolder]

\* pool.map hands the next partition to a free worker
TakePartition(w) ==
    /\ pc = "workers"
    /\ proc[w].pc = "idle"
    /\ workerList # <<>>
    /\ proc' = [proc EXCEPT ![w] =
                   [IdleProc EXCEPT !.pc = IF self.computeSEDSlopes
                                           THEN "sedAcquire" ELSE "obsAcquire",
                                    !.stars = Head(workerList).stars,
                                    !.obs = Head(workerList).obs]]
    /\ workerList' = Tail(workerList)
    /\ callInfo' = [callInfo EXCEPT !.dispatched = @ + 1]
    /\ UNCHANGED <<starVars, shm, locks>>
    /\ WorkerFrame

\* if self.computeSEDSlopes: objMagStdMeanLock.acquire()
SedAcquire(w) ==
    /\ Goto(w, "sedAcquire", "sedWrite")
    /\ Acquire(w, "objMagStdMean")
    /\ UNCHANGED <<starVars, shm, workerList, callInfo>>
    /\ WorkerFrame

\* the first means, from the magnitudes without chromatic correction
SedWrite(w) ==
    /\ Goto(w, "sedWrite", "sedRelease")
    /\ LET go == proc[w].obs
           magGO == [i \in ObsIdx |-> ObsMagGO(parArray, i)]
           wtSum == WtSum(go)
       IN /\ objMagStdMean' = WriteMeans(objMagStdMean, wtSum, MeanTemp(go, magGO))
          /\ objMagStdMeanErr' = WriteMeanErrs(objMagStdMeanErr, wtSum)
    /\ UNCHANGED <<objMagStdMeanNoChrom, objSEDSlope, obsMagStd, shm,
                   workerList, callInfo, locks>>
    /\ WorkerFrame

\* objMagStdMeanLock.release()
SedRelease(w) ==
    /\ Goto(w, "sedRelease", "sedSlopes")
    /\ Release(w, "objMagStdMean")
    /\ UNCHANGED <<starVars, shm, workerList, callInfo>>
    /\ WorkerFrame

\* self.fgcmStars.computeObjectSEDSlopes(goodStars)
SedSlopes(w) ==
    /\ Goto(w, "sedSlopes", "obsAcquire")
    /\ objSEDSlope' = computeObjectSEDSlopes(objSEDSlope, objMagStdMean,
                                              proc[w].stars)
    /\ UNCHANGED <<objMagStdMean, objMagStdMeanNoChrom, objMagStdMeanErr,
                   obsMagStd, shm, workerList, callInfo, locks>>
    /\ WorkerFrame

\* obsMagStdLock.acquire()
ObsAcquire(w) ==
    /\ Goto(w, "obsAcquire", "obsWrite")
    /\ Acquire(w, "obsMagStd")
    /\ UNCHANGED <<starVars, shm, workerList, callInfo>>
    /\ WorkerFrame

\* obsMagStd[goodObs] = obsMagGO + deltaStdGO; obsMagStdGO = obsMagStd[goodObs]
ObsWrite(w) ==
    /\ pc = "workers"
    /\ proc[w].pc = "obsWrite"
    /\ obsMagStd' = WriteObsMagStd(obsMagStd, parArray, objSEDSlope, proc[w].obs)
    /\ proc' = [proc EXCEPT ![w].pc = "obsRelease",
                            ![w].obsMagStdGO = OnObs(obsMagStd', proc[w].obs)]
    /\ UNCHANGED <<objMagStdMean, objMagStdMeanNoChrom, objMagStdMeanErr,
                   objSEDSlope, shm, workerList, callInfo, locks>>
    /\ WorkerFrame

\* obsMagStdLock.release(); if self.allExposures: return None
ObsRelease(w) ==
    /\ pc = "workers"
    /\ proc[w].pc = "obsRelease"
    /\ Release(w, "obsMagStd")
    /\ proc' = [proc EXCEPT ![w] = IF self.allExposures THEN IdleProc
                                   ELSE [@ EXCEPT !.pc = "meanAcquire"]]
    /\ UNCHANGED <<starVars, shm, workerList, callInfo>>
    /\ WorkerFrame

\* objMagStdMeanLock.acquire()
MeanAcquire(w) ==
    /\ Goto(w, "meanAcquire", "meanWrite")
    /\ Acquire(w, "objMagStdMean")
    /\ UNCHANGED <<starVars, shm, workerList, callInfo>>
    /\ WorkerFrame

\* the means, the means without chromatic correction and the errors of the
\* cells of the partition, and the local copies of the first and the last
MeanWrite(w) ==
    /\ pc = "workers"
    /\ proc[w].pc = "meanWrite"
    /\ LET go == proc[w].obs
           magGO == [i \in ObsIdx |-> ObsMagGO(parArray, i)]
           wtSum == WtSum(go)
       IN /\ objMagStdMean' =
               WriteMeans(objMagStdMean, wtSum, MeanTemp(go, proc[w].obsMagStdGO))
          /\ objMagStdMeanNoChrom' =
               WriteMeans(objMagStdMeanNoChrom, wtSum, MeanTemp(go, magGO))
          /\ objMagStdMeanErr' = WriteMeanErrs(objMagStdMeanErr, wtSum)
          /\ proc' = [proc EXCEPT
                        ![w].pc = "meanRelease",
                        ![w].objMagStdMeanGO = OnCells(objMagStdMean', go),
                        ![w].objMagStdMeanErr2GO = OnCells(objMagStdMeanErr', go)]
    /\ UNCHANGED <<objSEDSlope, obsMagStd, shm, workerList, callInfo, locks>>
    /\ WorkerFrame

\* objMagStdMeanLock.release()
MeanRelease(w) ==
    /\ Goto(w, "meanRelease", "accumulate")
    /\ Release(w, "objMagStdMean")
    /\ UNCHANGED <<starVars, shm, workerList, callInfo>>
    /\ WorkerFrame

\* the partial array, from the local copies, added to the slot of the worker
Accumulate(w) ==
    /\ pc = "workers"
    /\ proc[w].pc = "accumulate"
    /\ \E partialArray \in
            {PartialArray(proc[w].obs, proc[w].obsMagStdGO,
                          proc[w].objMagStdMeanGO, proc[w].objMagStdMeanErr2GO,
                          parArray, self.computeDerivatives,
                          getUnitDict(self.fitterUnits))} :
          shm' = [shm EXCEPT ![totalHandleDict[w]] = AddToSlot(@, partialArray)]
    /\ proc' = [proc EXCEPT ![w] = IdleProc]
    /\ UNCHANGED <<starVars, workerList, callInfo, locks>>
    /\ WorkerFrame

\* one statement of one worker, up to its last release
LockStep(w) ==
    \/ TakePartition(w)
    \/ SedAcquire(w)
    \/ SedWrite(w)
    \/ SedRelease(w)
    \/ SedSlopes(w)
    \/ ObsAcquire(w)
    \/ ObsWrite(w)
    \/ ObsRelease(w)
    \/ MeanAcquire(w)
    \/ MeanWrite(w)
    \/ MeanRelease(w)

\* one statement of one worker
WorkerStep(w) ==
    \/ LockStep(w)
    \/ Accumulate(w)

InitLock ==
    /\ Init
    /\ nStarPerRun = MaxStarPerRun
    /\ \A o \in Obj : objFlag[o] = 0

NextLock ==
    \/ \E a \in LockEvalArgs : EvalBegin(a, MaxLockCalls)
    \/ \E w \in Workers : WorkerStep(w)
    \/ EvalEnd

SpecLock == InitLock /\ [][NextLock]_vars

\* The calls of the specification of the match cache: a longer run of fewer
\* kinds of call.
CacheEvalArgs ==
    LET p0 == PlainArgs(fitParams0)
    IN {p0,
        [p0 EXCEPT !.computeDerivatives = TRUE],
        [p0 EXCEPT !.useMatchCache = TRUE],
        [p0 EXCEPT !.useMatchCache = TRUE, !.includeReserve = TRUE]}

NextCache ==
    \/ \E a \in CacheEvalArgs : EvalBegin(a, MaxCacheCalls)
    \/ WorkerRun
    \/ EvalEnd
    \/ clearMatchCache

SpecCache == Init /\ [][NextCache]_vars

(***************************************************************************)
(* Properties.  LastArgs are the arguments of the current or last call,    *)
(* Returned holds once that call has returned normally.                    *)
(***************************************************************************)
Called == callInfo.args # <<>>
LastArgs == callInfo.args
Returned == Called /\ pc = "idle" /\ result.status = "return"
Raised(msg) == Called /\ pc = "idle" /\ result.status = "ValueError" /\ result.msg = msg

\* the observations of the list go that index the cell (o, b), in order
CellOf(go, o, b) ==
    SelectSeq(go, LAMBDA i : obsObjIDIndex[i] = o /\ obsBandIndex[i] = b)

\* the inverse-variance weighted average of mag over the observations of sel
WeightedAverage(mag, sel) ==
    SumWhere([i \in ObsIdx |-> mag[i] * obsWeight[i]], sel, LAMBDA i : TRUE)
        \div SumWhere(obsWeight, sel, LAMBDA i : TRUE)

\* the standardized magnitude of observation i under the loaded parameters
\* and the current SED slopes
StdMag(i) == ObsMagGO(parArray, i) + DeltaStd(parArray, objSEDSlope, i)

\* C1: a call with allExposures together with computeDerivatives or
\* computeSEDSlopes raises ValueError and changes nothing: the parameters
\* are not reloaded, no cell of the mean, mean-error or standardized
\* magnitude arrays is written, the chi-squared history gets no entry, the
\* two computed flags keep their values and no slot is allocated.
C1_IncompatibleOptionsRaise ==
    [][(nCalls' = nCalls + 1
        /\ callInfo'.args.allExposures
        /\ (callInfo'.args.computeDerivatives \/ callInfo'.args.computeSEDSlopes))
       => /\ pc' = "idle"
          /\ result'.status = "ValueError"
          /\ result'.msg = "Cannot set allExposures and computeDerivatives or computeSEDSlopes"
          /\ UNCHANGED <<parArray, objMagStdMean, objMagStdMeanNoChrom,
                         objMagStdMeanErr, objSEDSlope, obsMagStd, fitChisqs,
                         magStdComputed, allMagStdComputed, shm,
                         totalHandleDict, nActualFitPars, matchCache>>]_vars

\* an incompatible call with computeSEDSlopes was refused after an earlier
\* call had filled the arrays with other parameters than it was given
C1_Witness ==
    /\ Raised("Cannot set allExposures and computeDerivatives or computeSEDSlopes")
    /\ LastArgs.computeSEDSlopes
    /\ magStdComputed
    /\ fitChisqs # <<>>
    /\ parArray # reloadParArray(LastArgs.fitParams, LastArgs.fitterUnits)

\* no object passes the flag selection of the call
NoGoodObject(includeReserve) ==
    \A o \in Obj :
        objFlag[o] \notin ({0} \cup (IF includeReserve THEN {RESERVED} ELSE {}))

\* C2: a call with compatible options for which no object passes the flag
\* selection (under either value of includeReserve) raises ValueError
\* "No good stars to fit!" and no worker is dispatched.
C2_NoGoodStarsRaises ==
    (/\ Called
     /\ ~(LastArgs.allExposures
          /\ (LastArgs.computeDerivatives \/ LastArgs.computeSEDSlopes))
     /\ NoGoodObject(LastArgs.includeReserve))
    => /\ Raised("No good stars to fit!")
       /\ callInfo.dispatched = 0
       /\ workerList = <<>>
       /\ callInfo.handles = {}

\* the call with includeReserve found no star
C2_Witness ==
    /\ Raised("No good stars to fit!")
    /\ LastArgs.includeReserve
    /\ \E o \in Obj : objFlag[o] # 0

\* C3: in a gradient call with allExposures off, with N the summed number of
\* fit-band observations and A the number of parameters whose summed touch
\* counter is nonzero: the call raises when N - A <= 0, and otherwise the
\* objective is chisq / (N - A) and the gradient deriv / (N - A).
C3_DegreesOfFreedom ==
    (callInfo.fanIn /\ LastArgs.computeDerivatives /\ ~LastArgs.allExposures)
    => LET sums == callInfo.partialSums
           N == sums[2 * nFitPars + 1]
           A == Cardinality({p \in ParIdx : sums[nFitPars + p] # 0})
       IN /\ N = Len(SelectSeq(callInfo.goodObs,
                               LAMBDA i : obsBandIndex[i] \in SeqRange(fitBandIndex)))
          /\ nActualFitPars = A
          /\ IF N - A <= 0
             THEN /\ result.status = "ValueError"
                  /\ result.msg = "Number of parameters fitted is more than number of constraints!"
             ELSE /\ result.status = "return"
                  /\ result.fitChisq = sums[2 * nFitPars] \div (N - A)
                  /\ result.dChisqdP = [p \in ParIdx |-> sums[p] \div (N - A)]

\* a gradient call returned with fewer touched parameters than the vector has
C3_Witness ==
    /\ callInfo.fanIn
    /\ LastArgs.computeDerivatives
    /\ Returned
    /\ nActualFitPars < nFitPars
    /\ result.fitChisq > 0
    /\ \E p \in ParIdx : result.dChisqdP[p] # 0

\* the mean of the cell (o, b) from the standardized magnitudes of the list
\* go: the weighted average of its observations, 99.0 without any
MeanOf(go, o, b) ==
    IF CellOf(go, o, b) = <<>> THEN Mag99
    ELSE WeightedAverage(obsMagStd, CellOf(go, o, b))

\* the good observations of the selected stars: unflagged, on good exposures
GoodObsOfSelection ==
    SelectSeq([k \in 1..nStarObs |-> k - 1],
              LAMBDA i : /\ obsObjIDIndex[i] \in SeqRange(callInfo.goodStars)
                         /\ obsFlag[i] = 0
                         /\ expFlag[obsExpIndex[i]] = 0)

\* C4 as stated: after any call that returns, with allExposures or not,
\* every mean is the weighted average of the standardized magnitudes, under
\* the parameters of that call, of the good observations of the object.
C4_AsStated ==
    Returned
    => \A o \in Obj, b \in Band :
          /\ objMagStdMean[o][b] = MeanOf(GoodObsOfSelection, o, b)
          /\ \A k \in 1..Len(GoodObsOfSelection) :
                obsMagStd[GoodObsOfSelection[k]] = StdMag(GoodObsOfSelection[k])

\* C4: after a call that returns with allExposures off, every mean is the
\* weighted average of the standardized magnitudes, under the parameters of
\* that call, of the observations the call joined (its fresh or cached
\* join), and 99.0 where it joined none; a call with allExposures on leaves
\* the three mean arrays as it found them.
C4_MeansAfterCall ==
    Returned
    => IF LastArgs.allExposures
       THEN <<objMagStdMean, objMagStdMeanNoChrom, objMagStdMeanErr>>
                = callInfo.before
       ELSE /\ \A o \in Obj, b \in Band :
                  objMagStdMean[o][b] = MeanOf(callInfo.goodObs, o, b)
            /\ \A k \in 1..Len(callInfo.goodObs) :
                  obsMagStd[callInfo.goodObs[k]] = StdMag(callInfo.goodObs[k])

\* an all-exposures call returned and left means that were computed under
\* other parameters than its own
C4_Witness ==
    /\ Returned
    /\ LastArgs.allExposures
    /\ prev.valid
    /\ ~prev.args.allExposures
    /\ prev.args.fitParams # LastArgs.fitParams
    /\ \E o \in Obj, b \in Band : objMagStdMean[o][b] # Mag99

\* the call repeats the evaluate call before it, both returning and both
\* with computeSEDSlopes off
Repeated ==
    Returned /\ prev.valid /\ prev.args = LastArgs /\ ~LastArgs.computeSEDSlopes

\* the call gave the chi-squared and left the arrays of the call before it
SameAsBefore ==
    /\ result.fitChisq = prev.fitChisq
    /\ result.dChisqdP = prev.dChisqdP
    /\ objMagStdMean = prev.stars[1]
    /\ objMagStdMeanErr = prev.stars[3]
    /\ obsMagStd = prev.stars[5]

C6_ChisqPartitionIndependent ==
    (callInfo.fanIn /\ ~LastArgs.allExposures)
    => LET sums == callInfo.partialSums
           nSums == nSumsOf(LastArgs.computeDerivatives)
           gof == ObsFitUse(callInfo.goodObs)
       IN /\ sums[nSums - 2] = PartialChisq(gof, obsMagStd, objMagStdMean)
          /\ sums[nSums - 1] = Len(gof)

\* a call split into three partitions has summed a nonzero chi-squared
C6_Witness ==
    /\ callInfo.fanIn
    /\ ~LastArgs.allExposures
    /\ ~LastArgs.debug
    /\ callInfo.dispatched >= 3
    /\ callInfo.partialSums[nSumsOf(LastArgs.computeDerivatives) - 2] > 0

\* C7 as stated: the summed derivative of every parameter is that of a
\* single run over all the joined observations, whatever the partitioning.
C7_GradientPartitionIndependent ==
    (callInfo.fanIn /\ LastArgs.computeDerivatives /\ ~LastArgs.allExposures)
    => LET whole == PartialArray(callInfo.goodObs, obsMagStd, objMagStdMean,
                                 objMagStdMeanErr, parArray, TRUE,
                                 getUnitDict(LastArgs.fitterUnits))
       IN \A p \in ParIdx : callInfo.partialSums[p] = whole[p]

\* no object has the RESERVED bit
NoReservedBits == \A o \in Obj : (objFlag[o] \div RESERVED) % 2 = 0

\* C8: when no object has the RESERVED bit, a call selects the objects with
\* no flag at all whatever includeReserve, and a call that differs from the
\* call before it only in includeReserve returns the same chi-squared and
\* gradient.
C8_ReserveWithoutReservedStars ==
    NoReservedBits
    => /\ (Called /\ callInfo.goodStars # <<>>)
          => SeqRange(callInfo.goodStars) = {o \in Obj : objFlag[o] = 0}
       /\ (/\ Returned
           /\ prev.valid
           /\ prev.args = [LastArgs EXCEPT !.includeReserve = ~@])
          => /\ callInfo.goodStars = prev.goodStars
             /\ result.fitChisq = prev.fitChisq
             /\ result.dChisqdP = prev.dChisqdP

\* a gradient call with includeReserve returned after the same call without
C8_Witness ==
    /\ NoReservedBits
    /\ Returned
    /\ prev.valid
    /\ LastArgs.includeReserve
    /\ LastArgs.computeDerivatives
    /\ prev.args = [LastArgs EXCEPT !.includeReserve = FALSE]
    /\ result.fitChisq > 0

\* C9 as stated: outside a call no accumulator slot is allocated: every
\* slot a call allocates is released when it ends, normally or by raising.
C9_SlotsReleased ==
    pc = "idle" => DOMAIN shm = {}

\* the error each gray operation raises when its computed flag is off
StateError(op) ==
    IF op \in {"computeExpGrayForInitialSelection", "computeExpGrayColorSplit"}
    THEN "RuntimeError"
    ELSE "ValueError"

\* the computed flag each gray operation requires
FlagOf(op) ==
    IF op = "computeCCDAndExpGray" THEN allMagStdComputed ELSE magStdComputed

\* C10: computeExpGrayForInitialSelection, computeExpGrayColorSplit and
\* computeSigFgcm raise when magStdComputed is off and computeCCDAndExpGray
\* raises when allMagStdComputed is off, each leaving every gray table, the
\* exposure fields of the parameter container and the sigFgcm values as they
\* were; so one of them returns only after an evaluate call has returned, and
\* computeCCDAndExpGray only after one with allExposures has returned.
C10_ComputedFlagGuards ==
    [][nGrayOps' = nGrayOps + 1
       => /\ ~FlagOf(grayResult'.op)
             => /\ grayResult'.status = StateError(grayResult'.op)
                /\ UNCHANGED <<fgcmGray, fgcmPars>>
          /\ grayResult'.status = "return"
             => /\ evalReturned # {}
                /\ grayResult'.op = "computeCCDAndExpGray"
                      => TRUE \in evalReturned]_vars

\* computeCCDAndExpGray was refused after an evaluate call without
\* allExposures, and left the tables another gray operation had filled
C10_Witness ==
    /\ grayResult.op = "computeCCDAndExpGray"
    /\ grayResult.status = "ValueError"
    /\ magStdComputed
    /\ ~allMagStdComputed
    /\ evalReturned = {FALSE}
    /\ fgcmGray # NoGray


(***************************************************************************)
(* The gray tables per (exposure, CCD) cell.                               *)
(***************************************************************************)
\* computeCCDAndExpGray has returned and no evaluate call has begun since
CCDGrayReturned ==
    /\ grayInfo.args # <<>>
    /\ grayResult.op = "computeCCDAndExpGray"
    /\ grayResult.status = "return"

\* The star observations that contribute to the cell (e, c) in the last
\* computeCCDAndExpGray call, ascending: unflagged observations of unflagged
\* stars with enough observations in the required bands, under the ceiling
\* on the residual variance, taken in a required band or in an extra band
\* in which their star has enough observations.
Contributing(e, c) ==
    SortedSeq({i \in ObsIdx :
                  /\ obsExpIndex[i] = e
                  /\ obsCCDIndex[i] = c
                  /\ objFlag[obsObjIDIndex[i]] = 0
                  /\ \A b \in SeqRange(bandRequiredIndex) :
                        objNGoodObs[obsObjIDIndex[i]][b] >= minObsPerBand
                  /\ obsFlag[i] = 0
                  /\ EGrayErr2(objMagStdMeanErr, i, grayInfo.args.onlyObsErr)
                        < ccdGrayMaxStarErr
                  /\ \/ obsBandIndex[i] \in SeqRange(bandRequiredIndex)
                     \/ objNGoodObs[obsObjIDIndex[i]][obsBandIndex[i]]
                           >= minObsPerBand},
              0, nStarObs - 1)

\* the weight of observation i in the last computeCCDAndExpGray call
GrayWeight(i) == InvVar(EGrayErr2(objMagStdMeanErr, i, grayInfo.args.onlyObsErr))

\* the sums over the contributing observations of the cell: of the weights,
\* of the weighted residuals and of the weighted squared residuals
CellWt(e, c) ==
    SumWhere([i \in ObsIdx |-> GrayWeight(i)], Contributing(e, c), LAMBDA i : TRUE)
CellGray(e, c) ==
    SumWhere([i \in ObsIdx |->
                 EGray(objMagStdMean, obsMagStd, i) * GrayWeight(i)],
             Contributing(e, c), LAMBDA i : TRUE)
CellGray2(e, c) ==
    SumWhere([i \in ObsIdx |->
                 EGray(objMagStdMean, obsMagStd, i)
                 * EGray(objMagStdMean, obsMagStd, i) * GrayWeight(i)],
             Contributing(e, c), LAMBDA i : TRUE)

\* the weighted variance E[x^2] - E[x]^2 of a cell of positive weight
CellVariance(e, c) ==
    FDiv(CellGray2(e, c), CellWt(e, c))
        - FDiv(CellGray(e, c), CellWt(e, c)) * FDiv(CellGray(e, c), CellWt(e, c))

CellMeasured(e, c) ==
    /\ Len(Contributing(e, c)) > 2
    /\ CellWt(e, c) > 0
    /\ CellVariance(e, c) > 0

ContributingCCDs(e) ==
    {c \in CCD : /\ fgcmGray.ccdNGoodStars[e][c] >= minStarPerCCD
                 /\ fgcmGray.ccdGrayErr[e][c] > 0
                 /\ fgcmGray.ccdGrayErr[e][c] < maxCCDGrayErr2}

RECURSIVE SumCCDs(_, _)
SumCCDs(S, val) ==
    IF S = {} THEN 0
    ELSE LET c == CHOOSE x \in S : TRUE
         IN val[c] + SumCCDs(S \ {c}, val)

\* a cell that holds the sentinel in one of its three values
SentinelCell(e, c) ==
    \/ fgcmGray.ccdGray[e][c] = illegalValue
    \/ fgcmGray.ccdGrayRMS[e][c] = illegalValue
    \/ fgcmGray.ccdGrayErr[e][c] = illegalValue

\* the inverse-variance weighted mean of the grays of the CCDs S of e
WeightedCCDMean(e, S) ==
    LET w == [c \in CCD |-> InvVar(fgcmGray.ccdGrayErr[e][c])]
    IN FDiv(SumCCDs(S, [c \in CCD |-> fgcmGray.ccdGray[e][c] * w[c]]),
            SumCCDs(S, w))

\* C12: after computeCCDAndExpGray the CCDs counted and summed into an
\* exposure are exactly those with at least minStarPerCCD stars and a gray
\* error strictly between 0 and maxCCDGrayErr, and no cell holding the
\* sentinel is among them; an exposure with fewer than 3 of them holds the
\* sentinel in expGray, expGrayRMS, expGrayErr and expNGoodTilings, and an
\* exposure with 3 or more holds in expGray the inverse-variance weighted
\* mean of their grays.
C12_ExposureGray ==
    CCDGrayReturned =>
        \A e \in Exp :
            LET S == ContributingCCDs(e)
            IN /\ \A c \in CCD : SentinelCell(e, c) => c \notin S
               /\ fgcmGray.expNGoodCCDs[e] = Cardinality(S)
               /\ fgcmGray.expNGoodStars[e]
                     = SumCCDs(S, fgcmGray.ccdNGoodStars[e])
               /\ IF Cardinality(S) < 3
                  THEN /\ fgcmGray.expGray[e] = illegalValue
                       /\ fgcmGray.expGrayRMS[e] = illegalValue
                       /\ fgcmGray.expGrayErr[e] = illegalValue
                       /\ fgcmGray.expNGoodTilings[e] = illegalValue
                  ELSE /\ fgcmGray.expGray[e] = WeightedCCDMean(e, S)
                       /\ fgcmGray.expGray[e] # illegalValue
                       /\ fgcmGray.expGrayErr[e] # illegalValue
                       /\ fgcmGray.expNGoodTilings[e] # illegalValue

\* one exposure has three contributing CCDs of differing grays and a mean
\* that is not zero; another has one, beside a sentinel cell of four stars
\* and a measured cell that is left out for its error
C12_Witness ==
    /\ CCDGrayReturned
    /\ \E e \in Exp :
          /\ Cardinality(ContributingCCDs(e)) = 3
          /\ fgcmGray.expGray[e] \notin {0, illegalValue}
          /\ \E c, d \in CCD : fgcmGray.ccdGray[e][c] # fgcmGray.ccdGray[e][d]
    /\ \E e \in Exp :
          /\ Cardinality(ContributingCCDs(e)) = 1
          /\ fgcmGray.expGray[e] = illegalValue
          /\ \E c \in CCD : /\ SentinelCell(e, c)
                            /\ fgcmGray.ccdNGoodStars[e][c] >= minStarPerCCD
          /\ \E c \in CCD : /\ ~SentinelCell(e, c)
                            /\ fgcmGray.ccdNGoodStars[e][c] >= minStarPerCCD
                            /\ c \notin ContributingCCDs(e)


(***************************************************************************)
(* The repeatability per band and colour subset.                           *)
(***************************************************************************)
\* computeSigFgcm has run its loops and no evaluate call has begun since
SigFgcmLooped ==
    /\ grayInfo.args # <<>>
    /\ grayResult.op = "computeSigFgcm"
    /\ grayResult.status \in {"return", "UnboundLocalError"}

\* the usable observations of band b and colour subset c in the last
\* computeSigFgcm call
Usable(b, c) ==
    SigUse(SigGoodObs(SigGoodStars(objFlag, grayInfo.args.reserved)),
           objMagStdMean, objMagStdMeanErr, obsMagStd, b, c)

\* the median measurement variance of the subset
MedianVariance(b, c) ==
    LET use == Usable(b, c)
    IN Median([k \in 1..Len(use) |-> EGrayErr2(objMagStdMeanErr, use[k], FALSE)])

\* C13: every band and colour subset with a usable observation that
\* computeSigFgcm processes yields a scatter that is not negative and is
\* that of exactly one of three cases: 0.05 when the fit fails or returns a
\* width that is not finite, 0.001 when the median measurement variance of
\* the subset exceeds the squared width, and otherwise the square root of
\* the squared width less the median variance, which is never negative.
C13_SigFgcmCases ==
    SigFgcmLooped =>
        /\ DOMAIN grayInfo.sigFgcm
              = {p \in Band \X SigCut :
                    p[1] \in grayInfo.bands /\ Usable(p[1], p[2]) # <<>>}
        /\ \A p \in DOMAIN grayInfo.sigFgcm :
              LET width2 == grayInfo.coeff2[p]
                  median == MedianVariance(p[1], p[2])
                  sig == grayInfo.sigFgcm[p]
              IN /\ sig >= 0
                 /\ median > 0
                 /\ width2 = NonFinite => sig = Sig05
                 /\ width2 # NonFinite /\ median > width2 => sig = Sig001
                 /\ width2 # NonFinite /\ median <= width2
                       => /\ width2 - median >= 0
                          /\ sig = Sqrt(MilliPerVar * (width2 - median))

\* one call met the three cases: a failed fit, a width below the median
\* variance and a width above it
C13_Witness ==
    /\ SigFgcmLooped
    /\ \E p \in DOMAIN grayInfo.sigFgcm :
          grayInfo.coeff2[p] = NonFinite /\ grayInfo.sigFgcm[p] = Sig05
    /\ \E p \in DOMAIN grayInfo.sigFgcm :
          /\ grayInfo.coeff2[p] # NonFinite
          /\ MedianVariance(p[1], p[2]) > grayInfo.coeff2[p]
          /\ grayInfo.sigFgcm[p] = Sig001
    /\ \E p \in DOMAIN grayInfo.sigFgcm :
          /\ grayInfo.coeff2[p] > MedianVariance(p[1], p[2])
          /\ grayInfo.sigFgcm[p] \notin {Sig05, Sig001}


\* C14: a computeSigFgcm call writes compSigFgcm[band] only when save is set
\* and only with the value of the all-colours subset of the band: the
\* values of the blue, middle and red subsets are never written, with save
\* off every band keeps its value, and a band whose all-colours subset
\* yields no value (it has no usable observation) keeps its value.
C14_OnlyAllColorsSaved ==
    [][nGrayOps' = nGrayOps + 1 /\ grayResult'.op = "computeSigFgcm"
       => \A b \in Band :
             IF /\ grayInfo'.args.save
                /\ <<b, 0>> \in DOMAIN grayInfo'.sigFgcm
             THEN fgcmPars'.compSigFgcm[b] = grayInfo'.sigFgcm[<<b, 0>>]
             ELSE fgcmPars'.compSigFgcm[b] = fgcmPars.compSigFgcm[b]]_vars

\* a saving call wrote the all-colours value of a band whose other subsets
\* yielded other values, and left the value an earlier call had saved for
\* a band without an all-colours value
C14_Witness ==
    /\ SigFgcmLooped
    /\ grayInfo.args.save
    /\ \E b \in Band :
          /\ <<b, 0>> \in DOMAIN grayInfo.sigFgcm
          /\ fgcmPars.compSigFgcm[b] = grayInfo.sigFgcm[<<b, 0>>]
          /\ \E c \in SigCut \ {0} :
                /\ <<b, c>> \in DOMAIN grayInfo.sigFgcm
                /\ grayInfo.sigFgcm[<<b, c>>] # grayInfo.sigFgcm[<<b, 0>>]
    /\ \E b \in Band :
          /\ <<b, 0>> \notin DOMAIN grayInfo.sigFgcm
          /\ fgcmPars.compSigFgcm[b] # 0


\* C15: a computeSigFgcm call that passes its guard and finds good
\* observations processes every band and raises no error, whatever doPlots
\* is and whichever bands or colour subsets have no usable observation, and
\* with doPlots off it writes no plot file.
C15_EveryBandProcessed ==
    SigFgcmLooped =>
        /\ grayResult.status = "return"
        /\ grayInfo.bands = Band
        /\ ~grayInfo.args.doPlots => grayInfo.plots = {}


(***************************************************************************)
(* The colour split of the exposure gray.                                  *)
(***************************************************************************)
\* computeExpGrayColorSplit has returned and no evaluate call has begun
\* since
ColorSplitReturned ==
    /\ grayInfo.args # <<>>
    /\ grayResult.op = "computeExpGrayColorSplit"
    /\ grayResult.status = "return"

\* the selected observations: the unflagged observations of the unflagged
\* stars with enough observations in the required bands
Selected ==
    {i \in ObsIdx : /\ objFlag[obsObjIDIndex[i]] = 0
                    /\ \A b \in SeqRange(bandRequiredIndex) :
                          objNGoodObs[obsObjIDIndex[i]][b] >= minObsPerBand
                    /\ obsFlag[i] = 0}

\* the colour of the star of observation i
Color(i) == objMagStdMean[obsObjIDIndex[i]][colorSplitIndices[1]]
                - objMagStdMean[obsObjIDIndex[i]][colorSplitIndices[2]]

\* the colour at position k (from 0) of the selected observations sorted
\* by colour: the colour with at most k colours below it and more than k
\* colours not above it
ColorAt(k) ==
    CHOOSE g \in {Color(i) : i \in Selected} :
        /\ Cardinality({i \in Selected : Color(i) < g}) <= k
        /\ Cardinality({i \in Selected : Color(i) <= g}) > k

\* the cut points: the colours at the positions 0, int(0.25 n), int(0.75 n)
\* and n - 1
CutPoint(j) ==
    LET n == Cardinality(Selected)
    IN ColorAt(IF j = 0 THEN 0
               ELSE IF j = 1 THEN n \div 4
               ELSE IF j = 2 THEN (3 * n) \div 4
               ELSE n - 1)

\* the subset c: blue, middle, red
Subset(c) ==
    {i \in Selected : Color(i) > CutPoint(c) /\ Color(i) < CutPoint(c + 1)}

\* the cut points are the colours at the four positions and the three
\* subsets are pairwise disjoint: the number of stars of each exposure and
\* subset is the number of observations of the subset on the exposure
ColorSplitCuts ==
    ColorSplitReturned =>
        /\ \A e \in Exp, c \in ColorCut :
              fgcmGray.expGrayNGoodStarsColorSplit[e][c]
                 = Cardinality({i \in Subset(c) : obsExpIndex[i] = e})
        /\ \A c, d \in ColorCut : c # d => Subset(c) \cap Subset(d) = {}

\* C16: after computeExpGrayColorSplit the blue, middle and red subsets are
\* cut at the colours at the sorted positions 0, int(0.25 n), int(0.75 n)
\* and n - 1, are pairwise disjoint, and together hold every selected
\* observation: each selected observation is counted in exactly one subset.
C16_ColorSplitPartition ==
    ColorSplitReturned =>
        /\ \A e \in Exp, c \in ColorCut :
              fgcmGray.expGrayNGoodStarsColorSplit[e][c]
                 = Cardinality({i \in Subset(c) : obsExpIndex[i] = e})
        /\ \A c, d \in ColorCut : c # d => Subset(c) \cap Subset(d) = {}
        /\ \A i \in Selected : \E c \in ColorCut : i \in Subset(c)
        /\ \A e \in Exp :
              fgcmGray.expGrayNGoodStarsColorSplit[e][0]
                 + fgcmGray.expGrayNGoodStarsColorSplit[e][1]
                 + fgcmGray.expGrayNGoodStarsColorSplit[e][2]
                 = Cardinality({i \in Selected : obsExpIndex[i] = e})


(***************************************************************************)
(* The evaluate call over all exposures.                                   *)
(***************************************************************************)
\* the unflagged observations of the objects the call selects, on every
\* exposure
AllExposuresObs ==
    {i \in ObsIdx :
        /\ obsFlag[i] = 0
        /\ \/ objFlag[obsObjIDIndex[i]] = 0
           \/ LastArgs.includeReserve /\ objFlag[obsObjIDIndex[i]] = RESERVED}

\* C17: an evaluate call with allExposures that reaches its fan-in returns;
\* it has written the standardized magnitude of every unflagged observation
\* of a good object, on flagged exposures too, and it leaves the mean,
\* no-chromatic mean and mean-error arrays as they were before the call;
\* no worker has added to a slot, the chi-squared history gets no entry, and
\* the value returned is the last of the history, 0.0 when it is empty.
C17_AllExposuresCall ==
    [][pc = "workers" /\ pc' = "idle" /\ self.allExposures
       => /\ result'.status = "return"
          /\ \A i \in AllExposuresObs : obsMagStd'[i] = StdMag(i)
          /\ <<objMagStdMean', objMagStdMeanNoChrom', objMagStdMeanErr'>>
                = callInfo.before
          /\ \A k \in DOMAIN callInfo'.partialSums : callInfo'.partialSums[k] = 0
          /\ fitChisqs' = fitChisqs
          /\ result'.dChisqdP = <<>>
          /\ result'.fitChisq = IF fitChisqs = <<>> THEN 0
                                ELSE fitChisqs[Len(fitChisqs)]]_vars

\* an all-exposures call returned the last chi-squared of a history that is
\* not empty, wrote the observations of a flagged exposure and left means
\* computed under other parameters than its own
C17_Witness ==
    /\ Returned
    /\ LastArgs.allExposures
    /\ fitChisqs # <<>>
    /\ result.fitChisq = fitChisqs[Len(fitChisqs)]
    /\ result.fitChisq # 0
    /\ \E i \in AllExposuresObs :
          expFlag[obsExpIndex[i]] # 0 /\ obsMagStd[i] = StdMag(i) /\ obsMagStd[i] # 0
    /\ prev.valid
    /\ prev.args.fitParams # LastArgs.fitParams
    /\ \E o \in Obj, b \in Band : objMagStdMean[o][b] # Mag99


(***************************************************************************)
(* The residual variances of the observations of a cell.                   *)
(***************************************************************************)
\* the decorrelated residual variance of observation i: its error squared
\* less the squared error of the mean of its star
DecorrelatedVariance(i) ==
    obsMagErr2(i) - objMagStdMeanErr[obsObjIDIndex[i]][obsBandIndex[i]]

\* the selected observations of the cell (e, c) whose decorrelated variance
\* is positive and under the ceiling
PositiveVariance(e, c) ==
    {i \in ObsIdx :
        /\ obsExpIndex[i] = e
        /\ obsCCDIndex[i] = c
        /\ objFlag[obsObjIDIndex[i]] = 0
        /\ \A b \in SeqRange(bandRequiredIndex) :
              objNGoodObs[obsObjIDIndex[i]][b] >= minObsPerBand
        /\ obsFlag[i] = 0
        /\ \/ obsBandIndex[i] \in SeqRange(bandRequiredIndex)
           \/ objNGoodObs[obsObjIDIndex[i]][obsBandIndex[i]] >= minObsPerBand
        /\ DecorrelatedVariance(i) > 0
        /\ DecorrelatedVariance(i) < ccdGrayMaxStarErr}

\* C18: after computeCCDAndExpGray with onlyObsErr off, the observations
\* counted in a cell are the selected observations of the cell whose
\* decorrelated variance is strictly positive and under the ceiling: an
\* observation of zero or negative variance is discarded before the
\* aggregation, so that every contributing weight is positive.
C18_PositiveVariance ==
    CCDGrayReturned /\ ~grayInfo.args.onlyObsErr
    => \A e \in Exp, c \in CCD :
          fgcmGray.ccdNGoodStars[e][c] = Cardinality(PositiveVariance(e, c))


(***************************************************************************)
(* The partitions of one evaluate call.                                    *)
(***************************************************************************)
\* the call has just handed its partitions to the pool: none has run
Dispatched == Called /\ pc = "workers" /\ callInfo.dispatched = 0

\* the observation rows whose standardized magnitude the worker of the
\* partition writes, and the (object, band) cells of the mean arrays it
\* writes: those in which one of its observations adds a weight
RowsOf(task) == SeqRange(task.obs)
CellsOf(task) ==
    {<<obsObjIDIndex[i], obsBandIndex[i]>> : i \in SeqRange(task.obs)}

\* the partitions write disjoint rows and disjoint cells
PartitionsDisjoint ==
    \A j, k \in 1..Len(workerList) :
        j # k => /\ RowsOf(workerList[j]) \cap RowsOf(workerList[k]) = {}
                 /\ CellsOf(workerList[j]) \cap CellsOf(workerList[k]) = {}

\* every eligible observation of a selected star is in a partition, and
\* every observation of a partition is one of a star of that partition
RoutedByStar ==
    /\ UNION {RowsOf(workerList[j]) : j \in 1..Len(workerList)}
          = {i \in ObsIdx : /\ obsObjIDIndex[i] \in SeqRange(callInfo.goodStars)
                            /\ ObsPassesCut(i, LastArgs.allExposures)}
    /\ \A j \in 1..Len(workerList) : \A i \in RowsOf(workerList[j]) :
          obsObjIDIndex[i] \in SeqRange(workerList[j].stars)

\* the join of the call is the join of its own selection: the call built
\* it, or the cached star position of each cached observation is that of
\* its star among the stars the call selects
JoinOfSelection ==
    LastArgs.useMatchCache
    => \A k \in 1..Len(matchCache.goodObs) :
          /\ matchCache.goodStarsSub[k] < Len(callInfo.goodStars)
          /\ callInfo.goodStars[matchCache.goodStarsSub[k] + 1]
                = obsObjIDIndex[matchCache.goodObs[k]]

StepOfHolder(w, lock) ==
    /\ proc'[w] # proc[w]
    /\ locks[lock] = w
    /\ locks'[lock] = w

WritesUnderLock ==
    pc = "workers" /\ pc' = "workers" =>
        /\ <<objMagStdMean, objMagStdMeanNoChrom, objMagStdMeanErr>>'
               # <<objMagStdMean, objMagStdMeanNoChrom, objMagStdMeanErr>>
             => \E w \in Workers : StepOfHolder(w, "objMagStdMean")
        /\ obsMagStd' # obsMagStd
             => \E w \in Workers : StepOfHolder(w, "obsMagStd")

NeverBothLocks ==
    \A w \in Workers : ~(locks.objMagStdMean = w /\ locks.obsMagStd = w)

ReturnedHoldsNothing ==
    \A w \in Workers :
        proc[w].pc = "idle" => locks.objMagStdMean # w /\ locks.obsMagStd # w

\* a worker past its last release runs to its return without waiting
NotDeadlocked ==
    pc = "workers" =>
        \/ \E w \in Workers : proc[w].pc = "accumulate"
        \/ ENABLED ((\E w \in Workers : LockStep(w)) \/ EvalEnd)

C19_LockDiscipline ==
    /\ [](NeverBothLocks /\ ReturnedHoldsNothing /\ NotDeadlocked)
    /\ [][WritesUnderLock]_vars

\* one worker has written the means of its partition and still holds the
\* lock, while another waits for it and a third partition is still to run
C19_Witness ==
    \E w1, w2 \in Workers :
        /\ w1 # w2
        /\ proc[w1].pc = "meanRelease"
        /\ locks.objMagStdMean = w1
        /\ objMagStdMean # callInfo.before[1]
        /\ proc[w2].pc = "meanAcquire"
        /\ workerList # <<>>

(***************************************************************************)
(* C21.  The partitioning of a pool call that builds its own join: for     *)
(* every n >= 1 good stars and every nStarPerRun >= 1 the call dispatches  *)
(* n \div nStarPerRun + 1 partitions; each star chunk is non-empty and     *)
(* holds at most nStarPerRun stars, the sizes differ by at most one and    *)
(* every good star is in exactly one chunk; the observations of a          *)
(* partition are the eligible observations of the stars of its chunk; and  *)
(* the partitions are in non-increasing order of observation count.        *)
(***************************************************************************)
\* the last call is a pool call with good stars that builds its own join
OwnJoinPoolCall ==
    /\ Called
    /\ ~LastArgs.debug
    /\ ~LastArgs.useMatchCache
    /\ ~ArgsIncompatible(LastArgs)
    /\ Len(callInfo.goodStars) >= 1

\* the split raised: no partition was dispatched
SplitRaised == pc = "idle" /\ result.status = "IndexError"

ChunkSizes == [j \in 1..Len(workerList) |-> Len(workerList[j].stars)]

SplitProperties ==
    OwnJoinPoolCall /\ Dispatched =>
        /\ Len(workerList) = Len(callInfo.goodStars) \div nStarPerRun + 1
        /\ \A j \in 1..Len(workerList) :
              /\ ChunkSizes[j] >= 1
              /\ ChunkSizes[j] <= nStarPerRun
              /\ \A k \in 1..Len(workerList) : ChunkSizes[j] - ChunkSizes[k] <= 1
              \* each star chunk still paired to its own observations
              /\ workerList[j].obs =
                    SelectSeq(callInfo.goodObs,
                              LAMBDA i : obsObjIDIndex[i] \in SeqRange(workerList[j].stars))
              /\ j < Len(workerList)
                    => Len(workerList[j].obs) >= Len(workerList[j + 1].obs)
        /\ \A o \in SeqRange(callInfo.goodStars) :
              Cardinality({j \in 1..Len(workerList) :
                              o \in SeqRange(workerList[j].stars)}) = 1
        /\ SumSeq(ChunkSizes) = Len(callInfo.goodStars)
        /\ \A i \in SeqRange(callInfo.goodObs) :
              Cardinality({j \in 1..Len(workerList) :
                              i \in SeqRange(workerList[j].obs)}) = 1

C21_PartitioningForEverySize ==
    /\ OwnJoinPoolCall => ~SplitRaised
    /\ SplitProperties

(***************************************************************************)
(* C22.  The fan-out and fan-in of a pool call, in every interleaving of   *)
(* the workers and every assignment of partitions to them: the driver      *)
(* sums the slots only when no partition is left and every worker is       *)
(* back; a slot changes only in a step of the worker whose key it has;     *)
(* and the sums the driver reads are the sum, over the partitions of the   *)
(* call, of the partial array of each partition, counted once.             *)
(***************************************************************************)
\* the partitions of the last call, as it dispatched them
PartitionsOfCall ==
    MakeWorkerList(callInfo.goodStars, callInfo.goodObs,
                   PreMatch(callInfo.goodStars, LastArgs.allExposures).goodStarsSub,
                   nStarPerRun)

\* the partial array of one partition, from the arrays the workers left
PartialOf(task) ==
    PartialArray(task.obs, obsMagStd, objMagStdMean, objMagStdMeanErr, parArray,
                 LastArgs.computeDerivatives, getUnitDict(LastArgs.fitterUnits))

SumOfPartials ==
    LET parts == PartitionsOfCall
        arrays == [j \in 1..Len(parts) |-> PartialOf(parts[j])]
    IN [k \in 0..(nSumsOf(LastArgs.computeDerivatives) - 1) |->
           SumSeq([j \in 1..Len(parts) |-> arrays[j][k]])]

FanInSumsEveryPartitionOnce ==
    Called /\ callInfo.fanIn /\ ~LastArgs.allExposures
        => callInfo.partialSums = SumOfPartials

FanInAfterWorkers ==
    Called /\ ~callInfo.fanIn /\ callInfo'.fanIn
        => /\ workerList = <<>>
           /\ \A w \in Workers : proc[w].pc = "idle"
           /\ callInfo.dispatched = Len(PartitionsOfCall)

OwnSlotOnly ==
    pc = "workers" /\ pc' = "workers" =>
        \A h \in DOMAIN shm :
            shm'[h] # shm[h]
                => \E w \in Workers : /\ h = totalHandleDict[w]
                                      /\ proc[w].pc = "accumulate"
                                      /\ proc'[w] # proc[w]
                                      /\ \A v \in Workers \ {w} : proc'[v] = proc[v]

C22_FanOutFanIn ==
    /\ []FanInSumsEveryPartitionOnce
    /\ [][FanInAfterWorkers /\ OwnSlotOnly]_vars

\* a call has returned whose three partitions left observations in the
\* sums, two of them through the same worker
C22_Witness ==
    /\ Returned
    /\ callInfo.fanIn
    /\ ~LastArgs.allExposures
    /\ callInfo.dispatched = 3
    /\ callInfo.partialSums[nSumsOf(LastArgs.computeDerivatives) - 1] > 0
    /\ callInfo.partialSums = SumOfPartials

(***************************************************************************)
(* C23.  After an evaluate call with computeDerivatives, the summed touch  *)
(* counter of a fit parameter is non-zero if and only if some eligible     *)
(* fit-band observation of the call contributed to the derivative sum of   *)
(* the parameter: an observation on the night of a nightly parameter, or   *)
(* in the wash interval of a wash parameter.  This for every family, the   *)
(* nightly PWV intercept and the nightly PWV slope included.               *)
(***************************************************************************)
\* the fan-in of a call with derivatives has summed the slots
DerivativesSummed == Called /\ callInfo.fanIn /\ LastArgs.computeDerivatives

\* the night or the wash interval that fit parameter p belongs to
IsNightly(p) == p < parQESysInterceptLoc
GroupOfPar(p) ==
    IF IsNightly(p) THEN (p - parO3Loc) % nCampaignNights
    ELSE (p - parQESysInterceptLoc) % nWashIntervals

\* some fit-band observation of the call adds into the sum of parameter p
Contributes(p) ==
    \E i \in SeqRange(ObsFitUse(callInfo.goodObs)) :
        IF IsNightly(p) THEN obsNight[i] = GroupOfPar(p)
        ELSE obsWash[i] = GroupOfPar(p)

Touched(p) == callInfo.partialSums[nFitPars + p] > 0

\* the parameters of the nightly PWV slope
PWVPerSlopePars == {parPWVPerSlopeLoc + n : n \in Night}

\* every family but the nightly PWV slope
TouchedIffContributes ==
    DerivativesSummed =>
        \A p \in ParIdx \ PWVPerSlopePars : Touched(p) <=> Contributes(p)

C23_TouchedIffContributes ==
    DerivativesSummed => \A p \in ParIdx : Touched(p) <=> Contributes(p)

(***************************************************************************)
(* C24.  For every parameter family, the derivative accumulated for a      *)
(* parameter p is 2 / unit times the sum, over the fit-band observations   *)
(* mapped to p, of weight * delta * (dL/dp of the observation minus the    *)
(* weighted mean of dL/dp over the observations of the same object in the  *)
(* same band), the subtracted term being built from the partial            *)
(* derivatives of the family of p.  The term of an object does not depend  *)
(* on the partition, so the statement is checked on the sums of the call.  *)
(***************************************************************************)
\* the family of fit parameter p: 0 O3, 1 alpha, 2 PWV intercept, 3 PWV
\* slope, 4 lnTau intercept, 5 lnTau slope, 6 wash intercept, 7 wash slope
FamilyOfPar(p) ==
    IF IsNightly(p) THEN (p - parO3Loc) \div nCampaignNights
    ELSE 6 + (p - parQESysInterceptLoc) \div nWashIntervals

\* observation i is mapped to parameter p
MappedTo(p, i) ==
    IF IsNightly(p) THEN obsNight[i] = GroupOfPar(p) ELSE obsWash[i] = GroupOfPar(p)

\* dL/dp of observation i for the family of p
dLdp(p, i) ==
    LET e == obsExpIndex[i]
        f == FamilyOfPar(p)
    IN CASE f = 0 -> dLdO3(e)
         [] f = 1 -> dLdAlpha(e)
         [] f = 2 -> dLdPWV(e)
         [] f = 3 -> expDeltaUT[e] * expPWV(parArray, e) * dLdPWV(e)
         [] f = 4 -> dLdTau(e)
         [] f = 5 -> expDeltaUT[e] * dLdTau(e)
         [] f = 6 -> DUnit
         [] OTHER -> (expMJD[e] - washMJDs[obsWash[i] + 1]) * DUnit

\* the weighted mean of dL/dp over the observations of the object and band
\* of observation i: sum of dL/dp / err^2 times the squared mean error
ObjectMeandLdp(p, i) ==
    LET gof == ObsFitUse(callInfo.goodObs)
        summed == SumWhere([k \in ObsIdx |-> dLdp(p, k) * obsWeight[k]], gof,
                           LAMBDA k : /\ obsObjIDIndex[k] = obsObjIDIndex[i]
                                      /\ obsBandIndex[k] = obsBandIndex[i]
                                      /\ MappedTo(p, k))
    IN (summed * objMagStdMeanErr[obsObjIDIndex[i]][obsBandIndex[i]]) \div VarUnit

SelfCalibratedDerivative(p) ==
    LET gof == ObsFitUse(callInfo.goodObs)
        term == [i \in ObsIdx |->
                    DeltaMag(obsMagStd, objMagStdMean, i) * obsWeight[i]
                    * (dLdp(p, i) - ObjectMeandLdp(p, i))]
    IN ScaleByUnit(SumWhere(term, gof, LAMBDA i : MappedTo(p, i)),
                   getUnitDict(LastArgs.fitterUnits))

\* the same sum without any subtracted term
UncorrectedDerivative(p) ==
    LET gof == ObsFitUse(callInfo.goodObs)
        term == [i \in ObsIdx |->
                    DeltaMag(obsMagStd, objMagStdMean, i) * obsWeight[i] * dLdp(p, i)]
    IN ScaleByUnit(SumWhere(term, gof, LAMBDA i : MappedTo(p, i)),
                   getUnitDict(LastArgs.fitterUnits))

\* what the code leaves for the two intercept families: nothing subtracted
InterceptsUncorrected ==
    DerivativesSummed =>
        \A p \in ParIdx :
            FamilyOfPar(p) \in {2, 4}
                => callInfo.partialSums[p] = UncorrectedDerivative(p)

C24_SelfCalibratedDerivatives ==
    DerivativesSummed =>
        \A p \in ParIdx : callInfo.partialSums[p] = SelfCalibratedDerivative(p)

(***************************************************************************)
(* C25.  The match cache.  A call with useMatchCache that reads a join     *)
(* cached by a call with the same includeReserve and allExposures (the     *)
(* flags of the catalogue never change) uses the eligible observations,    *)
(* dispatches the partitions and sums the chi-squared and the count that   *)
(* the same call makes with useMatchCache off; the cache is filled only    *)
(* by a call with useMatchCache; and after clearMatchCache nothing is      *)
(* cached, so that the next call makes its join again.                     *)
(***************************************************************************)
\* the join a call without useMatchCache makes for the selection of the call
FreshJoin == PreMatch(callInfo.goodStars, LastArgs.allExposures)

\* the call read a join cached for its own selection options
ReadsOwnSelection ==
    /\ Called
    /\ callInfo.fromCache
    /\ callInfo.cachedFor = [includeReserve |-> LastArgs.includeReserve,
                             allExposures |-> LastArgs.allExposures]

CachedJoinIsFresh ==
    ReadsOwnSelection =>
        /\ callInfo.goodObs = FreshJoin.goodObs
        /\ Dispatched /\ ~LastArgs.debug
              => workerList = MakeWorkerList(callInfo.goodStars, FreshJoin.goodObs,
                                             FreshJoin.goodStarsSub, nStarPerRun)
        /\ callInfo.fanIn /\ ~LastArgs.allExposures
              => LET nSums == nSumsOf(LastArgs.computeDerivatives)
                     gof == ObsFitUse(FreshJoin.goodObs)
                 IN /\ callInfo.partialSums[nSums - 2]
                          = PartialChisq(gof, obsMagStd, objMagStdMean)
                    /\ callInfo.partialSums[nSums - 1] = Len(gof)

FilledOnlyByCachingCall ==
    ~matchCache.cached /\ matchCache'.cached
        => /\ nCalls' = nCalls + 1
           /\ callInfo'.args.useMatchCache
           /\ ~callInfo'.fromCache
           /\ matchCache'.goodObs = callInfo'.goodObs

ClearedThenRecomputed ==
    /\ ~callInfo.cacheCleared /\ callInfo'.cacheCleared => ~matchCache'.cached
    /\ nCalls' = nCalls + 1 /\ ~matchCache.cached /\ callInfo'.goodObs # <<>>
          => /\ ~callInfo'.fromCache
             /\ callInfo'.goodObs =
                   PreMatch(callInfo'.goodStars, callInfo'.args.allExposures).goodObs

InRequiredBand(i) == obsBandIndex[i] \in SeqRange(bandRequiredIndex)

C26_RequiredBandsOnly ==
    ColorSplitReturned =>
        \A e \in Exp, c \in ColorCut :
            /\ fgcmGray.expGrayNGoodStarsColorSplit[e][c]
                  = Cardinality({i \in Subset(c) :
                                    obsExpIndex[i] = e /\ InRequiredBand(i)})
            /\ expBandIndex[e] \notin SeqRange(bandRequiredIndex)
                  => /\ fgcmGray.expGrayNGoodStarsColorSplit[e][c] = 0
                     /\ fgcmGray.expGrayColorSplit[e][c] = illegalValue
                     /\ fgcmGray.expGrayRMSColorSplit[e][c] = illegalValue

(***************************************************************************)
(* C27.  The remembered count of active parameters.  nActualFitPars is     *)
(* the number of fit parameters until a call with computeDerivatives       *)
(* reaches its fan-in, and changes only there, to the number of            *)
(* parameters with a positive summed touch counter.  A call without        *)
(* computeDerivatives and without allExposures subtracts the remembered    *)
(* count from its number of fit observations: it raises when the           *)
(* difference is not positive and returns the summed chi-squared divided   *)
(* by the difference otherwise.                                            *)
(***************************************************************************)
\* the step is the fan-in of the current call
FanInStep == Called /\ ~callInfo.fanIn /\ callInfo'.fanIn

RememberedCountWritten ==
    IF FanInStep /\ LastArgs.computeDerivatives /\ ~LastArgs.allExposures
    THEN nActualFitPars' =
             Cardinality({p \in ParIdx : callInfo'.partialSums[nFitPars + p] > 0})
    ELSE nActualFitPars' = nActualFitPars

RememberedCountUsed ==
    FanInStep /\ ~LastArgs.computeDerivatives /\ ~LastArgs.allExposures
        => LET sums == callInfo'.partialSums
               dof == sums[1] - nActualFitPars
           IN /\ nActualFitPars' = nActualFitPars
              /\ IF dof <= 0
                 THEN result'.status = "ValueError"
                 ELSE /\ result'.status = "return"
                      /\ result'.fitChisq = sums[0] \div dof

C27_RememberedParameterCount ==
    /\ [](nCalls = 0 => nActualFitPars = nFitPars)
    /\ [][RememberedCountWritten /\ RememberedCountUsed]_vars

\* a call without derivatives has returned a chi-squared formed with the
\* count that an earlier call with derivatives left, below the full number
C27_Witness ==
    /\ Returned
    /\ callInfo.fanIn
    /\ ~LastArgs.computeDerivatives
    /\ ~LastArgs.allExposures
    /\ nActualFitPars < nFitPars
    /\ result.fitChisq = callInfo.partialSums[0] \div (callInfo.partialSums[1] - nActualFitPars)
    /\ result.fitChisq > 0

(***************************************************************************)
(* The two "computed" flags under every operation: evaluate calls of each  *)
(* kind, clearMatchCache, and the gray and repeatability operations.       *)
(***************************************************************************)
FlagEvalArgs ==
    GrayEvalArgs \cup
    {[PlainArgs(fitParams0) EXCEPT !.useMatchCache = TRUE],
     [PlainArgs(fitParams0) EXCEPT !.computeDerivatives = TRUE]}

NextFlags ==
    \/ \E a \in FlagEvalArgs : EvalBegin(a, MaxCalls)
    \/ WorkerRun
    \/ EvalEnd
    \/ clearMatchCache
    \/ computeExpGrayForInitialSelection
    \/ \E onlyObsErr \in BOOLEAN : computeCCDAndExpGray(onlyObsErr)
    \/ computeExpGrayColorSplit
    \/ \E reserved \in BOOLEAN, doPlots \in BOOLEAN, save \in BOOLEAN :
          \E w \in FitWidth2 : computeSigFgcm(reserved, doPlots, save, {w})

SpecFlags == InitGray /\ [][NextFlags]_vars

(***************************************************************************)
(* C28.  magStdComputed is on after every evaluate call that returns,      *)
(* also one with allExposures, which computes no mean magnitude;           *)
(* allMagStdComputed goes on only in the return of a call with             *)
(* allExposures; and no step of any operation turns either flag off.       *)
(***************************************************************************)
\* the step is the normal return of the current evaluate call
EvalReturnStep == pc = "workers" /\ pc' = "idle" /\ result'.status = "return"

OnAfterEveryReturn == EvalReturnStep => magStdComputed'

AllOnOnlyWithAllExposures ==
    ~allMagStdComputed /\ allMagStdComputed'
        => EvalReturnStep /\ LastArgs.allExposures

NeverReset ==
    /\ magStdComputed => magStdComputed'
    /\ allMagStdComputed => allMagStdComputed'

C28_ComputedFlags ==
    [][OnAfterEveryReturn /\ AllOnOnlyWithAllExposures /\ NeverReset]_vars

\* the first call, with allExposures, has returned and left every mean at
\* 99; both flags are on and a gray operation has since been made
C28_Witness ==
    /\ Returned
    /\ LastArgs.allExposures
    /\ nCalls = 1
    /\ \A o \in Obj, b \in Band : objMagStdMean[o][b] = Mag99
    /\ magStdComputed
    /\ allMagStdComputed
    /\ nGrayOps > 0
    /\ grayResult.status = "return"

(***************************************************************************)
(* The evaluate calls on a catalogue in which a call can fail after        *)
(* another has returned: with one star flagged variable and one reserved,  *)
(* a call with includeReserve has enough fit observations and a call       *)
(* without has not.                                                        *)
(***************************************************************************)
FailFlagConfigs ==
    FlagConfigs \cup
    { [o \in Obj |-> IF o = 0 THEN VARIABLE_BIT
                     ELSE IF o = 1 THEN RESERVED ELSE 0] }

InitFail ==
    /\ objFlag \in FailFlagConfigs
    /\ nStarPerRun \in 1..MaxStarPerRun
    /\ Constructed

SpecFail == InitFail /\ [][Next]_vars

(***************************************************************************)
(* C29.  A call that raises "No good stars to fit!" or the error of the    *)
(* degrees of freedom appends nothing to fitChisqs and leaves the two      *)
(* flags as they were (no step of a call but its normal return changes     *)
(* them); the parameters are those of its vector and, without              *)
(* allExposures, the three mean arrays are reset to 99.0; and when the     *)
(* degrees of freedom fail, the workers have written the means and the     *)
(* standardized magnitudes of the joined observations.                     *)
(***************************************************************************)
NoDataError == Raised("No good stars to fit!")

DOFError ==
    Raised("Number of parameters fitted is more than number of constraints!")

\* a step of an evaluate call: its begin, a worker, its fan-in
EvalStep == nCalls' = nCalls + 1 \/ pc = "workers"

FailureKeepsHistoryAndFlags ==
    EvalStep /\ ~EvalReturnStep
        => UNCHANGED <<fitChisqs, magStdComputed, allMagStdComputed>>

ParametersReloaded ==
    parArray = [p \in ParIdx |->
                   LastArgs.fitParams[p] \div getUnitDict(LastArgs.fitterUnits)]

MeansReset ==
    /\ objMagStdMean = [o \in Obj |-> [b \in Band |-> Mag99]]
    /\ objMagStdMeanNoChrom = [o \in Obj |-> [b \in Band |-> Mag99]]
    /\ objMagStdMeanErr = [o \in Obj |-> [b \in Band |-> Err99]]

WorkersHaveWritten ==
    /\ \A o \in Obj, b \in Band :
          objMagStdMean[o][b] = MeanOf(callInfo.goodObs, o, b)
    /\ \A k \in 1..Len(callInfo.goodObs) :
          obsMagStd[callInfo.goodObs[k]] = StdMag(callInfo.goodObs[k])
    /\ \E o \in Obj, b \in Band : objMagStdMean[o][b] # Mag99

AfterNoData ==
    NoDataError
        => /\ ParametersReloaded
           /\ IF LastArgs.allExposures
              THEN <<objMagStdMean, objMagStdMeanNoChrom, objMagStdMeanErr>>
                       = callInfo.before
              ELSE MeansReset

AfterDOF ==
    DOFError
        => /\ ~LastArgs.allExposures
           /\ ParametersReloaded
           /\ WorkersHaveWritten

C29_FailedCallEffects ==
    /\ [](AfterNoData /\ AfterDOF)
    /\ [][FailureKeepsHistoryAndFlags]_vars

\* a call failed at the degrees of freedom after a call with another vector
\* and includeReserve that returned: the history holds the one chi-squared,
\* the flag is on, the parameters and means are those of the failed call
C29_Witness ==
    /\ DOFError
    /\ prev.valid
    /\ prev.args.fitParams # LastArgs.fitParams
    /\ Len(fitChisqs) = 1
    /\ magStdComputed
    /\ ParametersReloaded
    /\ WorkersHaveWritten

(***************************************************************************)
(* Two computeCCDAndExpGray calls in a row, each on its own sums: the      *)
(* second finds in the parameter container what the first has left.  The   *)
(* cells of exposure 0 are drawn one by one, those of exposure 1 are all   *)
(* empty or all measured.                                                  *)
(***************************************************************************)
ReAggCells ==
    LET a == <<Star(-10, 4), Star(20, 6), Star(30, 4), Star(40, 4)>>
        b == <<Star(-20, 4), Star(0, 4), Star(10, 4), Star(30, 4)>>
    IN {cells \in [AggExp -> [CCD -> {<<>>, a, b}]] :
           cells[1] \in {[c \in CCD |-> <<>>],
                         [c \in CCD |-> IF c = 0 THEN a ELSE b]}}

\* a later call, up to its accumulation (fgcmGray.py 279-486)
AccumulateCCDSums ==
    /\ pc = "idle"
    /\ ~CCDAndExpGrayRaises
    /\ nGrayOps < MaxGrayOps
    /\ pc' = "ccdgray"
    /\ \E cells \in ReAggCells : ccdSums' = SumsOfCells(cells)
    /\ UNCHANGED <<fgcmGray, fgcmPars, grayResult, nGrayOps, grayInfo>>
    /\ UNCHANGED <<objFlag, nStarPerRun, parArray, starVars, magStdComputed,
                   allMagStdComputed, fitChisqs, nActualFitPars, matchCache,
                   self, workerList, totalHandleDict, shm, result, nCalls,
                   callInfo, prev, evalReturned>>
    /\ UNCHANGED lockVars

InitReAgg ==
    /\ AggStart
    /\ \E cells \in ReAggCells : ccdSums = SumsOfCells(cells)

NextReAgg ==
    \/ AggregateCCDGray
    \/ AccumulateCCDSums

SpecReAgg == InitReAgg /\ [][NextReAgg]_vars

(***************************************************************************)
(* C30.  computeCCDAndExpGray stores the exposure gray of every exposure   *)
(* in compExpGray, the sentinel where fewer than 3 CCDs contribute, and    *)
(* stores the squared RMS in compVarGray where at least 3 CCDs contribute; *)
(* elsewhere compVarGray keeps the value it had before the call.           *)
(***************************************************************************)
\* the step is the aggregation of a computeCCDAndExpGray call
AggregationStep == pc = "ccdgray" /\ pc' = "idle"

CompGrayWritten ==
    AggregationStep
        => \A e \in Exp :
              LET n == Cardinality(ContributingCCDs(e))'
              IN /\ fgcmPars'.compExpGray[e] = fgcmGray'.expGray[e]
                 /\ IF n < 3
                    THEN /\ fgcmPars'.compExpGray[e] = illegalValue
                         /\ fgcmPars'.compVarGray[e] = fgcmPars.compVarGray[e]
                    ELSE /\ fgcmPars'.compExpGray[e] # illegalValue
                         /\ fgcmPars'.compVarGray[e]
                               = fgcmGray'.expGrayRMS[e] * fgcmGray'.expGrayRMS[e]

C30_CompGrayFrame == [][CompGrayWritten]_vars

\* after the second call exposure 0 has fewer than 3 contributing CCDs, the
\* sentinel as its gray and RMS, and the variance that the first call wrote
C30_Witness ==
    /\ CCDGrayReturned
    /\ nGrayOps = 2
    /\ Cardinality(ContributingCCDs(0)) < 3
    /\ fgcmPars.compExpGray[0] = illegalValue
    /\ fgcmGray.expGrayRMS[0] = illegalValue
    /\ fgcmPars.compVarGray[0] > 0
    /\ Cardinality(ContributingCCDs(1)) = 3
    /\ fgcmPars.compVarGray[1] = fgcmGray.expGrayRMS[1] * fgcmGray.expGrayRMS[1]

====
